---- MODULE Spec2Model ----
(***************************************************************************)
(* The extract-and-rewrite pipeline of kiwi-cli: discovery of Chinese      *)
(* literals, key synthesis against the catalog, the source rewriter and   *)
(* the catalog writer, driven file by file by extractAll.                  *)
(*                                                                         *)
(* Strings are sequences of one-character strings.  A few multi-character  *)
(* lexemes that the code only ever moves as a unit are one element: the    *)
(* configured import statement, the tags of a file, "${" and the lookup    *)
(* symbol I18N.  Offsets are 0-based and ranges half-open, as in the code. *)
(***************************************************************************)
EXTENDS Integers, Sequences, FiniteSets, TLC

\* ------------------------------------------------------------------------
\* Strings
\* ------------------------------------------------------------------------

Min(a, b) == IF a < b THEN a ELSE b
Max(a, b) == IF a > b THEN a ELSE b

\* String.prototype.slice(a, b): negative offsets count from the end.
JsSlice(s, a, b) ==
  LET n  == Len(s)
      a1 == IF a < 0 THEN Max(n + a, 0) ELSE Min(a, n)
      b1 == IF b < 0 THEN Max(n + b, 0) ELSE Min(b, n)
  IN  IF a1 >= b1 THEN << >> ELSE SubSeq(s, a1 + 1, b1)

\* String.prototype.slice(a): to the end of the string.
JsSliceFrom(s, a) == JsSlice(s, a, Len(s))

\* s[i] with a 0-based index; the empty string when out of range.
CharAt(s, i) == IF i >= 0 /\ i < Len(s) THEN s[i + 1] ELSE ""

\* String.prototype.indexOf(ch, from) for a one-element needle; -1 if absent.
RECURSIVE IndexOf(_, _, _)
IndexOf(s, ch, from) ==
  IF from >= Len(s) THEN -1
  ELSE IF from >= 0 /\ s[from + 1] = ch THEN from
  ELSE IndexOf(s, ch, Max(from, 0) + 1)

\* indexOf of a two-element needle (such as "}}").
RECURSIVE IndexOf2(_, _, _, _)
IndexOf2(s, c1, c2, from) ==
  IF from + 1 >= Len(s) THEN -1
  ELSE IF from >= 0 /\ s[from + 1] = c1 /\ s[from + 2] = c2 THEN from
  ELSE IndexOf2(s, c1, c2, Max(from, 0) + 1)

\* lastIndexOf of a two-element needle, searching backwards from an offset.
RECURSIVE LastIndexOf2(_, _, _, _)
LastIndexOf2(s, c1, c2, from) ==
  IF from < 0 THEN -1
  ELSE IF from + 1 < Len(s) /\ s[from + 1] = c1 /\ s[from + 2] = c2 THEN from
  ELSE LastIndexOf2(s, c1, c2, from - 1)

\* String.prototype.replace(/x/g, y) for a one-element pattern.
ReplaceAll(s, x, y) == [i \in 1..Len(s) |-> IF s[i] = x THEN y ELSE s[i]]

\* Array.prototype.join('.') of a sequence of strings.
RECURSIVE JoinDot(_)
JoinDot(segs) ==
  IF segs = << >> THEN << >>
  ELSE IF Len(segs) = 1 THEN segs[1]
  ELSE segs[1] \o <<".">> \o JoinDot(Tail(segs))

\* String.prototype.split('.').
RECURSIVE SplitDot(_)
SplitDot(s) ==
  LET p == IndexOf(s, ".", 0)
  IN  IF p = -1 THEN <<s>>
      ELSE <<JsSlice(s, 0, p)>> \o SplitDot(JsSliceFrom(s, p + 1))

\* String.prototype.startsWith / endsWith.
StartsWith(s, p) == Len(p) <= Len(s) /\ SubSeq(s, 1, Len(p)) = p
EndsWith(s, p) == Len(p) <= Len(s) /\ SubSeq(s, Len(s) - Len(p) + 1, Len(s)) = p

\* The characters of the model's alphabet.
\* Z1, Z2: code points in U+4E00..U+9FA5; Z3: a code point in U+9FA6..U+9FFF.
HanBasic == {"Z1", "Z2"}
Han == HanBasic \cup {"Z3"}
LowerLetters == <<"a", "b", "c", "i", "j", "n", "t", "x">>
UpperLetters == <<"A", "B", "C", "I", "J", "N", "T", "X">>
Letters == {LowerLetters[i] : i \in 1..Len(LowerLetters)}
             \cup {UpperLetters[i] : i \in 1..Len(UpperLetters)}
Digits == {"0", "1", "2", "3", "4", "5", "6", "7", "8", "9"}
WhiteSpace == {" ", "\n"}

\* String.prototype.trim().
RECURSIVE TrimLeft(_)
TrimLeft(s) ==
  IF s # << >> /\ Head(s) \in WhiteSpace THEN TrimLeft(Tail(s)) ELSE s

RECURSIVE TrimRight(_)
TrimRight(s) ==
  IF s # << >> /\ s[Len(s)] \in WhiteSpace
  THEN TrimRight(SubSeq(s, 1, Len(s) - 1)) ELSE s

Trim(s) == TrimRight(TrimLeft(s))

\* text.replace(/\\n/gm, '\n'): a backslash followed by n becomes a line feed.
RECURSIVE Deescape(_)
Deescape(s) ==
  IF Len(s) < 2 THEN s
  ELSE IF s[1] = "\\" /\ s[2] = "n" THEN <<"\n">> \o Deescape(SubSeq(s, 3, Len(s)))
  ELSE <<s[1]>> \o Deescape(Tail(s))

\* ------------------------------------------------------------------------
\* Lexemes of the source files
\* ------------------------------------------------------------------------

\* CONFIG.importI18N, the statement injected into a rewritten file.
IMPORT_I18N == "import I18N from 'src/utils/I18N';"
LOOKUP == "I18N"
\* The backquote character that delimits a template literal.
BACKTICK == "BQ"

OpenTags == {"<b>", "<template>", "<script>", "<script lang=ts>"}
CloseTags == {"</b>", "</template>", "</script>"}
Tags == OpenTags \cup CloseTags

\* ------------------------------------------------------------------------
\* findChineseText.ts: discovery of the Chinese literals of one file
\* ------------------------------------------------------------------------

\* DOUBLE_BYTE_REGEX test: some code point in U+4E00..U+9FFF.
hasChinese(str) == \E i \in 1..Len(str) : str[i] \in Han

makeRange(start, end) == [start |-> start, end |-> end]

Match(start, end, text, isString) ==
  [range |-> makeRange(start, end), text |-> text, isString |-> isString]

\* The first offset >= i that holds no white space (skipTrivia of getStart).
RECURSIVE SkipTrivia(_, _, _)
SkipTrivia(code, i, stop) ==
  IF i < stop /\ CharAt(code, i) \in WhiteSpace THEN SkipTrivia(code, i + 1, stop) ELSE i

\* The end of a run of text inside an element: the next tag or brace.
RECURSIVE TextEnd(_, _, _)
TextEnd(code, i, stop) ==
  IF i >= stop \/ CharAt(code, i) \in Tags \cup {"{"} THEN i
  ELSE TextEnd(code, i + 1, stop)

\* The cooked value of a string literal (node.text): escapes are resolved.
Cook(raw) == Deescape(raw)

\* The source of a template literal with its first ${...} removed
\* (.replace(/\$\{[^\}]+\}/, '') of the component-file script walkers).
DropFirstInterpolation(s) ==
  LET p == IndexOf(s, "${", 0)
      q == IF p = -1 THEN -1 ELSE IndexOf(s, "}", p + 2)
  IN  IF p = -1 \/ q = -1 THEN s ELSE JsSlice(s, 0, p) \o JsSliceFrom(s, q + 1)

\* The walk of the TypeScript syntax tree over code[i, stop).  jsx: the file
\* is parsed as TSX (findTextInTs); otherwise as TS (the script section of a
\* component file).  inEl: the walk is among the children of a JSX element.
RECURSIVE ScanTs(_, _, _, _, _)
RECURSIVE ScanInterp(_, _, _, _)
ScanTs(code, i, stop, jsx, inEl) ==
  IF i >= stop THEN << >>
  ELSE
    LET c == CharAt(code, i) IN
    IF inEl THEN
      IF c \in CloseTags THEN ScanTs(code, i + 1, stop, jsx, FALSE)
      ELSE IF c \in OpenTags THEN ScanTs(code, i + 1, stop, jsx, TRUE)
      ELSE IF c = "{" THEN
        LET q == IndexOf(code, "}", i + 1) IN
        IF q = -1 \/ q >= stop THEN << >>
        ELSE ScanTs(code, i + 1, q, jsx, FALSE) \o ScanTs(code, q + 1, stop, jsx, TRUE)
      ELSE
        \* handleJsxElement: a JsxText child
        LET e == TextEnd(code, i, stop)
            s == SkipTrivia(code, i, e)
            text == JsSlice(code, s, e)
        IN  (IF hasChinese(text) THEN <<Match(s, e, Trim(text), FALSE)>> ELSE << >>)
            \o ScanTs(code, e, stop, jsx, TRUE)
    ELSE IF c = "'" THEN
      \* handleStringLiteral
      LET j == IndexOf(code, "'", i + 1) IN
      IF j = -1 \/ j >= stop THEN << >>
      ELSE
        LET text == Cook(JsSlice(code, i + 1, j)) IN
        (IF hasChinese(text) THEN <<Match(i, j + 1, text, TRUE)>> ELSE << >>)
        \o ScanTs(code, j + 1, stop, jsx, FALSE)
    ELSE IF c = BACKTICK THEN
      \* handleTemplateExpression / handleNoSubstitutionTemplateLiteral
      LET j == IndexOf(code, BACKTICK, i + 1) IN
      IF j = -1 \/ j >= stop THEN << >>
      ELSE
        LET whole == JsSlice(code, i, j + 1)
            tested == IF jsx THEN whole ELSE DropFirstInterpolation(whole)
            seen == hasChinese(tested)
        IN  (IF seen THEN <<Match(i, j + 1, JsSlice(code, i + 1, j), TRUE)>> ELSE << >>)
            \o ScanInterp(code, i + 1, j, jsx)
            \o ScanTs(code, j + 1, stop, jsx, FALSE)
    ELSE IF jsx /\ c \in OpenTags THEN ScanTs(code, i + 1, stop, jsx, TRUE)
    ELSE ScanTs(code, i + 1, stop, jsx, FALSE)

\* The expressions ${...} of a template literal, walked as code.
ScanInterp(code, i, stop, jsx) ==
  LET p == IndexOf(code, "${", i) IN
  IF p = -1 \/ p >= stop THEN << >>
  ELSE
    LET q == IndexOf(code, "}", p + 1) IN
    IF q = -1 \/ q >= stop THEN << >>
    ELSE ScanTs(code, p + 1, q, jsx, FALSE) \o ScanInterp(code, q + 1, stop, jsx)

findTextInTs(code) == ScanTs(code, 0, Len(code), TRUE, FALSE)

\* babelParser.parse throws a SyntaxError: a string or template literal of
\* the code is not closed.
RECURSIVE BabelRejects(_, _)
BabelRejects(code, i) ==
  IF i >= Len(code) THEN FALSE
  ELSE IF CharAt(code, i) \in {"'", BACKTICK} THEN
    LET j == IndexOf(code, CharAt(code, i), i + 1) IN
    IF j = -1 THEN TRUE ELSE BabelRejects(code, j + 1)
  ELSE BabelRejects(code, i + 1)

\* The traversal of the Babel syntax tree over code[i, stop): string
\* literals, template literals and the text children of JSX elements.
RECURSIVE ScanJs(_, _, _, _)
RECURSIVE ScanJsInterp(_, _, _)
ScanJs(code, i, stop, inEl) ==
  IF i >= stop THEN << >>
  ELSE
    LET c == CharAt(code, i) IN
    IF inEl THEN
      IF c \in CloseTags THEN ScanJs(code, i + 1, stop, FALSE)
      ELSE IF c \in OpenTags THEN ScanJs(code, i + 1, stop, TRUE)
      ELSE IF c = "{" THEN
        LET q == IndexOf(code, "}", i + 1) IN
        IF q = -1 \/ q >= stop THEN << >>
        ELSE ScanJs(code, i + 1, q, FALSE) \o ScanJs(code, q + 1, stop, TRUE)
      ELSE
        \* handleJSXElement: a JSXText child, from child.start to child.end
        LET e == TextEnd(code, i, stop)
            value == JsSlice(code, i, e)
        IN  (IF hasChinese(value) THEN <<Match(i, e, Trim(value), FALSE)>> ELSE << >>)
            \o ScanJs(code, e, stop, TRUE)
    ELSE IF c = "'" THEN
      \* handleStringLiteral
      LET j == IndexOf(code, "'", i + 1) IN
      IF j = -1 \/ j >= stop THEN << >>
      ELSE
        LET value == Cook(JsSlice(code, i + 1, j)) IN
        (IF hasChinese(value) THEN <<Match(i, j + 1, value, TRUE)>> ELSE << >>)
        \o ScanJs(code, j + 1, stop, FALSE)
    ELSE IF c = BACKTICK THEN
      \* handleTemplateLiteral
      LET j == IndexOf(code, BACKTICK, i + 1) IN
      IF j = -1 \/ j >= stop THEN << >>
      ELSE
        (IF hasChinese(JsSlice(code, i, j + 1))
         THEN <<Match(i, j + 1, JsSlice(code, i + 1, j), TRUE)>> ELSE << >>)
        \o ScanJsInterp(code, i + 1, j)
        \o ScanJs(code, j + 1, stop, FALSE)
    ELSE IF c \in OpenTags THEN ScanJs(code, i + 1, stop, TRUE)
    ELSE ScanJs(code, i + 1, stop, FALSE)

\* The expressions ${...} of a template literal, traversed as code.
ScanJsInterp(code, i, stop) ==
  LET p == IndexOf(code, "${", i) IN
  IF p = -1 \/ p >= stop THEN << >>
  ELSE
    LET q == IndexOf(code, "}", p + 1) IN
    IF q = -1 \/ q >= stop THEN << >>
    ELSE ScanJs(code, p + 1, q, FALSE) \o ScanJsInterp(code, q + 1, stop)

\* findTextInJs for a code that Babel parses.
findTextInJs(code) == ScanJs(code, 0, Len(code), FALSE)

\* The end of a text node of a component template: the next tag or "{{".
RECURSIVE TextEndVue(_, _, _)
TextEndVue(code, i, stop) ==
  IF i >= stop \/ CharAt(code, i) \in Tags
     \/ (CharAt(code, i) = "{" /\ CharAt(code, i + 1) = "{") THEN i
  ELSE TextEndVue(code, i + 1, stop)

\* The last offset + 1 of code[i, stop) that holds no white space.
RECURSIVE TrimEnd(_, _, _)
TrimEnd(code, i, stop) ==
  IF stop > i /\ CharAt(code, stop - 1) \in WhiteSpace THEN TrimEnd(code, i, stop - 1) ELSE stop

\* findTextInVue3Template: the walk of the template's syntax tree.
RECURSIVE ScanVueTemplate(_, _, _)
ScanVueTemplate(code, i, stop) ==
  IF i >= stop THEN << >>
  ELSE
    LET c == CharAt(code, i) IN
    IF c \in Tags THEN ScanVueTemplate(code, i + 1, stop)
    ELSE IF c = "{" /\ CharAt(code, i + 1) = "{" THEN
      \* an interpolation node: its content is a simple expression
      LET q == IndexOf2(code, "}", "}", i + 2) IN
      IF q = -1 \/ q >= stop THEN << >>
      ELSE
        LET contentStart == SkipTrivia(code, i + 2, q)
            contentEnd == TrimEnd(code, contentStart, q)
            content == JsSlice(code, contentStart, contentEnd)
        IN  (IF hasChinese(content)
             THEN <<Match(contentStart, contentEnd, content, TRUE)>> ELSE << >>)
            \o ScanVueTemplate(code, q + 2, stop)
    ELSE
      \* a text node
      LET e == TextEndVue(code, i, stop)
          content == JsSlice(code, i, e)
      IN  (IF hasChinese(content) THEN <<Match(i, e, Trim(content), FALSE)>> ELSE << >>)
          \o ScanVueTemplate(code, e, stop)

\* The first offset >= i of a lexeme of the set, or -1.
RECURSIVE IndexOfAny(_, _, _)
IndexOfAny(s, set, i) ==
  IF i >= Len(s) THEN -1
  ELSE IF s[i + 1] \in set THEN i
  ELSE IndexOfAny(s, set, i + 1)

ScriptOpenTags == {"<script>", "<script lang=ts>"}

\* findTextInVue3: the template section, then the script section walked as
\* TypeScript with the section's start as offset.
findTextInVue3(code) ==
  LET t  == IndexOf(code, "<template>", 0)
      u  == IF t = -1 THEN -1 ELSE IndexOf(code, "</template>", t)
      sp == IndexOfAny(code, ScriptOpenTags, 0)
      sq == IF sp = -1 THEN -1 ELSE IndexOf(code, "</script>", sp)
  IN  (IF t # -1 /\ u # -1 THEN ScanVueTemplate(code, t + 1, u) ELSE << >>)
      \o (IF sp # -1 /\ sq # -1 THEN ScanTs(code, sp + 1, sq, FALSE, FALSE) ELSE << >>)

\* value.source.match(DOUBLE_BYTE_REGEX): the characters outside Latin-1, one
\* match per character.
RECURSIVE DoubleByteMatches(_)
DoubleByteMatches(s) ==
  IF s = << >> THEN << >>
  ELSE (IF Head(s) \in Han THEN <<Head(s)>> ELSE << >>) \o DoubleByteMatches(Tail(s))

\* The value of a text node parsed with preserveWhitespaces: false: each run
\* of white space is one blank.
RECURSIVE CollapseWhiteSpace(_)
CollapseWhiteSpace(s) ==
  IF s = << >> THEN << >>
  ELSE IF Head(s) \in WhiteSpace
       THEN IF Len(s) > 1 /\ s[2] \in WhiteSpace THEN CollapseWhiteSpace(Tail(s))
            ELSE <<" ">> \o CollapseWhiteSpace(Tail(s))
  ELSE <<Head(s)>> \o CollapseWhiteSpace(Tail(s))

\* handleStringValue of findTextInHtml: the span of the node's value.
handleStringValue(code, value, startOffset, endOffset) ==
  Match(startOffset, endOffset, value, CharAt(code, startOffset) \in {"\"", "'"})

\* handleObjectValue of findTextInHtml: start is the index of the match in the
\* slice of the node, and it is the start of the range.
handleObjectValue(code, match, startOffset, endOffset) ==
  LET nodeValue == JsSlice(code, startOffset, endOffset)
      start == IndexOf(nodeValue, match, 0)
      end == start + 1
  IN  Match(start, end, <<match>>, FALSE)

\* The end of a text node of an HTML template: the next tag.
RECURSIVE TextEndHtml(_, _)
TextEndHtml(code, i) ==
  IF i >= Len(code) \/ CharAt(code, i) \in Tags THEN i ELSE TextEndHtml(code, i + 1)

\* visit of findTextInHtml over the nodes from offset i on: a text node with
\* an interpolation is a bound text whose value is an expression with a source.
RECURSIVE VisitHtml(_, _)
VisitHtml(code, i) ==
  IF i >= Len(code) THEN << >>
  ELSE IF CharAt(code, i) \in Tags THEN VisitHtml(code, i + 1)
  ELSE
    LET e == TextEndHtml(code, i)
        source == JsSlice(code, i, e)
        open == IndexOf2(source, "{", "{", 0)
        bound == open # -1 /\ IndexOf2(source, "}", "}", open + 2) # -1
        chineseMatches == DoubleByteMatches(source)
    IN  (IF Trim(source) = << >> \/ ~hasChinese(source) THEN << >>
         ELSE IF bound
              THEN [k \in 1..Len(chineseMatches) |->
                      handleObjectValue(code, chineseMatches[k], i, e)]
         ELSE <<handleStringValue(code, CollapseWhiteSpace(source), i, e)>>)
        \o VisitHtml(code, e)

findTextInHtml(code) == VisitHtml(code, 0)

\* A record as findVueText pushes it: a text, a range and isString, and no
\* field named start or end.
VueTextRecord(start, end, text, isString) ==
  [range |-> [start |-> start, end |-> end], text |-> text, isString |-> isString]

\* A record as findTextInVue2 pushes it for a hit of a render-function string
\* in the template.
RenderTextRecord(index, last, text, isString) ==
  [arrf |-> <<index, last>>, range |-> [start |-> index, end |-> last], text |-> text,
   isString |-> isString]

\* An operand of a comparison that is undefined: it compares as NaN.
NaN == -1

\* item[name] as an operand of a comparison.
Operand(item, name) == IF name \in DOMAIN item THEN item[name] ELSE NaN

\* a < b and a <= b of numbers: false when an operand is NaN.
JsLess(a, b) == a # NaN /\ b # NaN /\ a < b
JsLessEq(a, b) == a # NaN /\ b # NaN /\ a <= b

\* filterNestedRanges: a record goes when the arrf of some record brackets
\* its arrf, strictly on at least one side.
filterNestedRanges(matches) ==
  SelectSeq(matches,
            LAMBDA item :
              ~\E k \in 1..Len(matches) :
                 LET items == matches[k] IN
                 \/ JsLess(items.arrf[1], item.arrf[1]) /\ JsLessEq(item.arrf[2], items.arrf[2])
                 \/ JsLessEq(items.arrf[1], item.arrf[1]) /\ JsLess(item.arrf[2], items.arrf[2])
                 \/ JsLess(items.arrf[1], item.arrf[1]) /\ JsLess(item.arrf[2], items.arrf[2]))

\* findTextInVue2, steps 3, 5 and 6, from the records of findVueText and the
\* hits of the render-function strings: the records of the walk get
\* arrf = [item.start, item.end], the hits follow them, and the list is
\* filtered.
findTextInVue2Template(expressTemp, hits) ==
  LET withArrf == [i \in 1..Len(expressTemp) |->
                     [range |-> expressTemp[i].range, text |-> expressTemp[i].text,
                      isString |-> expressTemp[i].isString,
                      arrf |-> <<Operand(expressTemp[i], "start"),
                                 Operand(expressTemp[i], "end")>>]]
  IN  filterNestedRanges(withArrf \o hits)

ExtVue == <<".", "v", "u", "e">>
ExtTs == <<".", "t", "s">>
ExtTsx == <<".", "t", "s", "x">>
ExtJs == <<".", "j", "s">>
ExtJsx == <<".", "j", "s", "x">>
ExtHtml == <<".", "h", "t", "m", "l">>

\* findChineseText: the extractor of the file's dialect.
findChineseText(code, fileName) ==
  IF EndsWith(fileName, ExtHtml) THEN findTextInHtml(code)
  ELSE IF EndsWith(fileName, ExtVue) THEN findTextInVue3(code)
  ELSE IF EndsWith(fileName, ExtJs) \/ EndsWith(fileName, ExtJsx) THEN findTextInJs(code)
  ELSE findTextInTs(code)

\* findChineseText throws: the file goes to findTextInJs, whose parser has no
\* error recovery and stands in no try/catch.
findChineseTextThrows(code, fileName) ==
  /\ ~EndsWith(fileName, ExtHtml)
  /\ ~EndsWith(fileName, ExtVue)
  /\ EndsWith(fileName, ExtJs) \/ EndsWith(fileName, ExtJsx)
  /\ BabelRejects(code, 0)

\* ------------------------------------------------------------------------
\* extract.ts: work items
\* ------------------------------------------------------------------------

\* _.sortBy(texts, obj => -obj.range.start): a stable sort, last start first.
RECURSIVE InsertByStartDesc(_, _)
InsertByStartDesc(sorted, m) ==
  IF sorted = << >> THEN <<m>>
  ELSE IF Head(sorted).range.start < m.range.start THEN <<m>> \o sorted
  ELSE <<Head(sorted)>> \o InsertByStartDesc(Tail(sorted), m)

RECURSIVE SortByStartDescFrom(_, _)
SortByStartDescFrom(texts, acc) ==
  IF texts = << >> THEN acc
  ELSE SortByStartDescFrom(Tail(texts), InsertByStartDesc(acc, Head(texts)))

\* The spans left in the order in which the extractor found them.
sortTextsOmitted(texts) == texts

sortTexts(texts) == SortByStartDescFrom(texts, << >>)

\* filterTargetStrs: a span is dropped when a later one of the list ends at
\* or after its end.
RECURSIVE filterTargetStrs(_)
filterTargetStrs(texts) ==
  IF texts = << >> THEN << >>
  ELSE
    LET strObj == Head(texts)
        afterStrs == Tail(texts)
    IN  (IF \E k \in 1..Len(afterStrs) : strObj.range.end <= afterStrs[k].range.end
         THEN << >> ELSE <<strObj>>)
        \o filterTargetStrs(afterStrs)

\* The length of the fragment of a literal that is sent to the translator.
FragmentLen == 5

\* getTransOriginText: the Chinese characters and letters of the text, cut
\* to its first five characters.
getTransOriginText(text) ==
  LET findText == SelectSeq(text, LAMBDA ch : ch \in Letters \cup HanBasic)
  IN  JsSlice(findText, 0, FragmentLen)

\* ------------------------------------------------------------------------
\* extract.ts: key synthesis
\* ------------------------------------------------------------------------

ToUpper(ch) ==
  IF \E i \in 1..Len(LowerLetters) : LowerLetters[i] = ch
  THEN UpperLetters[CHOOSE i \in 1..Len(LowerLetters) : LowerLetters[i] = ch] ELSE ch

ToLower(ch) ==
  IF \E i \in 1..Len(UpperLetters) : UpperLetters[i] = ch
  THEN LowerLetters[CHOOSE i \in 1..Len(UpperLetters) : UpperLetters[i] = ch] ELSE ch

WordSeparators == {" ", "-", "_", "$", "."}

\* The words of a string, in lower case (lodash words + toLowerCase).
RECURSIVE Words(_, _)
Words(s, word) ==
  IF s = << >> THEN (IF word = << >> THEN << >> ELSE <<word>>)
  ELSE IF Head(s) \in WordSeparators
       THEN (IF word = << >> THEN << >> ELSE <<word>>) \o Words(Tail(s), << >>)
  ELSE Words(Tail(s), Append(word, ToLower(Head(s))))

RECURSIVE CapitalizeAll(_)
CapitalizeAll(ws) ==
  IF ws = << >> THEN << >>
  ELSE <<ToUpper(Head(ws)[1])>> \o Tail(Head(ws)) \o CapitalizeAll(Tail(ws))

\* _.camelCase
camelCase(s) ==
  LET ws == Words(s, << >>)
  IN  IF ws = << >> THEN << >> ELSE Head(ws) \o CapitalizeAll(Tail(ws))

\* String.prototype.split('/').
RECURSIVE SplitSlash(_)
SplitSlash(s) ==
  LET p == IndexOf(s, "/", 0)
  IN  IF p = -1 THEN <<s>>
      ELSE <<JsSlice(s, 0, p)>> \o SplitSlash(JsSliceFrom(s, p + 1))

Pages == <<"p", "a", "g", "e", "s">>
WordChars == Letters \cup Digits \cup {"_"}
IsWord(seg) == seg # << >> /\ \A i \in 1..Len(seg) : seg[i] \in WordChars

\* The match of /\/pages\/\w+\/([^\/]+)\/([^\/.]+)/ on the path's segments
\* from segment i on: the two captured groups, or << >> when nothing matches.
RECURSIVE MatchPages(_, _)
MatchPages(names, i) ==
  IF i + 3 > Len(names) THEN << >>
  ELSE IF i >= 2 /\ names[i] = Pages /\ IsWord(names[i + 1]) /\ names[i + 2] # << >>
          /\ SplitDot(names[i + 3])[1] # << >>
       THEN <<names[i + 2], SplitDot(names[i + 3])[1]>>
  ELSE MatchPages(names, i + 1)

\* getSuggestion: the key prefix suggested by the file's path.
getSuggestion(currentFilename) ==
  LET names == SplitSlash(currentFilename)
      n == Len(names)
      hasPages == \E i \in 2..(n - 1) : names[i] = Pages
      suggestion == IF hasPages THEN MatchPages(names, 1) ELSE << >>
      fileKey == ReplaceAll(SplitDot(names[n])[1], "-", "_")
      dir == ReplaceAll(names[n - 1], "-", "_")
  IN  IF suggestion # << >> THEN suggestion
      ELSE IF dir = fileKey THEN <<dir>> ELSE <<dir, fileKey>>

\* null and undefined
NULL == << >>
UNDEFINED == <<"undefined">>

\* _.keys(obj) of a flat object kept as its entries in insertion order.
Keys(obj) == {obj[i].k : i \in 1..Len(obj)}

\* obj[key] = value: in place when the key exists, else appended.
ObjSet(obj, key, value) ==
  IF key \in Keys(obj)
  THEN [i \in 1..Len(obj) |-> IF obj[i].k = key THEN [k |-> key, v |-> value] ELSE obj[i]]
  ELSE Append(obj, [k |-> key, v |-> value])

\* findMatchKey: the first key whose value is the text, or null.
findMatchKey(langObj, text) ==
  IF \E i \in 1..Len(langObj) : langObj[i].v = text
  THEN langObj[CHOOSE i \in 1..Len(langObj) :
                 /\ langObj[i].v = text
                 /\ \A j \in 1..(i - 1) : langObj[j].v # text].k
  ELSE NULL

\* findMatchValue: the value at the key, or undefined.
findMatchValue(langObj, key) ==
  IF key \in Keys(langObj)
  THEN langObj[CHOOSE i \in 1..Len(langObj) : langObj[i].k = key].v
  ELSE UNDEFINED

findExistingKey(finalLangObj, text) ==
  LET key == findMatchKey(finalLangObj, text)
  IN  IF key # NULL THEN ReplaceAll(key, "-", "_") ELSE NULL

generateNewKey(suggestion, langsPrefix, transText) ==
  LET baseKey == ReplaceAll((IF Len(suggestion) > 0
                             THEN JoinDot(suggestion) \o <<".">> ELSE << >>)
                            \o transText, "-", "_")
  IN  IF langsPrefix # NULL THEN langsPrefix \o <<".">> \o transText ELSE baseKey

\* The key that the while loop of deduplicateKey tests for occurTime.
Suffixed(transKey, occurTime) ==
  IF occurTime >= 2 THEN transKey \o <<ToString(occurTime)>> ELSE transKey

\* The loop with its first test made on the suffixed key.
RECURSIVE DedupLoopOnCandidate(_, _, _, _)
DedupLoopOnCandidate(finalLangObj, transKey, text, occurTime) ==
  IF /\ findMatchValue(finalLangObj, Suffixed(transKey, occurTime)) # text
     /\ Suffixed(transKey, occurTime) \in Keys(finalLangObj)
  THEN DedupLoopOnCandidate(finalLangObj, transKey, text, occurTime + 1)
  ELSE occurTime

RECURSIVE DedupLoop(_, _, _, _)
DedupLoop(finalLangObj, transKey, text, occurTime) ==
  IF /\ findMatchValue(finalLangObj, transKey) # text
     /\ Suffixed(transKey, occurTime) \in Keys(finalLangObj)
  THEN DedupLoop(finalLangObj, transKey, text, occurTime + 1)
  ELSE occurTime

deduplicateKey(finalLangObj, transKey, text) ==
  LET occurTime == DedupLoop(finalLangObj, transKey, text, 1)
  IN  IF occurTime >= 2 THEN transKey \o <<ToString(occurTime)>> ELSE transKey

assembleReplaceItem(target, key, needWrite) ==
  [target |-> target, key |-> key, needWrite |-> needWrite]

\* virtualMemory[text] of getReplaceableStrs: a set of <<text, key>> pairs.
VmHas(vm, text) == \E e \in vm : e[1] = text
VmGet(vm, text) == (CHOOSE e \in vm : e[1] = text)[2]

\* The reduce of getReplaceableStrs from the i-th span on.  The result holds
\* the replace items, and the in-memory catalog as the reduce leaves it.
RECURSIVE ReplaceableFrom(_, _, _, _, _, _, _)
ReplaceableFrom(suggestion, langsPrefix, translateTexts, targetStrs, i, finalLangObj, vm) ==
  IF i > Len(targetStrs) THEN [items |-> << >>, obj |-> finalLangObj]
  ELSE
    LET curr == targetStrs[i]
        text == curr.text
        existingKey == findExistingKey(finalLangObj, text)
        transText == IF i <= Len(translateTexts) THEN camelCase(translateTexts[i])
                     ELSE UNDEFINED
        transKey == generateNewKey(suggestion, langsPrefix, transText)
        finalKey == deduplicateKey(finalLangObj, transKey, text)
        step ==
          IF ~VmHas(vm, text) THEN
            IF existingKey # NULL
            THEN [item |-> assembleReplaceItem(curr, existingKey, FALSE),
                  obj |-> finalLangObj, vm |-> vm \cup {<<text, existingKey>>}]
            ELSE [item |-> assembleReplaceItem(curr, finalKey, TRUE),
                  obj |-> ObjSet(finalLangObj, finalKey, text),
                  vm |-> vm \cup {<<text, finalKey>>}]
          ELSE [item |-> assembleReplaceItem(curr, VmGet(vm, text), TRUE),
                obj |-> finalLangObj, vm |-> vm]
        rest == ReplaceableFrom(suggestion, langsPrefix, translateTexts, targetStrs,
                                i + 1, step.obj, step.vm)
    IN  [items |-> <<step.item>> \o rest.items, obj |-> rest.obj]

getReplaceableStrs(currentFilename, langsPrefix, translateTexts, targetStrs, finalLangObj) ==
  ReplaceableFrom(getSuggestion(currentFilename), langsPrefix, translateTexts,
                  targetStrs, 1, finalLangObj, {})

\* The original getReplaceableStrs, written in one piece.

\* The new key with its hyphens replaced after the prefix is put in front.
InlineTransKeyHyphensLast(suggestion, langsPrefix, transText) ==
  ReplaceAll(IF langsPrefix # NULL THEN langsPrefix \o <<".">> \o transText
             ELSE (IF Len(suggestion) > 0 THEN JoinDot(suggestion) \o <<".">> ELSE << >>)
                  \o transText, "-", "_")

\* transKey before the while loop: composed from the suggestion, its hyphens
\* replaced, and then overwritten when a prefix is given.
InlineTransKey(suggestion, langsPrefix, transText) ==
  LET composed == (IF Len(suggestion) > 0 THEN JoinDot(suggestion) \o <<".">> ELSE << >>)
                  \o transText
      replaced == ReplaceAll(composed, "-", "_")
  IN  IF langsPrefix # NULL THEN langsPrefix \o <<".">> \o transText ELSE replaced

\* occurTime after the while loop.
RECURSIVE InlineOccurTime(_, _, _, _)
InlineOccurTime(finalLangObj, transKey, text, occurTime) ==
  IF /\ findMatchValue(finalLangObj, transKey) # text
     /\ (IF occurTime >= 2 THEN transKey \o <<ToString(occurTime)>> ELSE transKey)
          \in Keys(finalLangObj)
  THEN InlineOccurTime(finalLangObj, transKey, text, occurTime + 1)
  ELSE occurTime

\* The reduce of the original getReplaceableStrs from the i-th span on.
RECURSIVE InlineReplaceableFrom(_, _, _, _, _, _, _)
InlineReplaceableFrom(suggestion, langsPrefix, translateTexts, targetStrs, i, finalLangObj, vm) ==
  IF i > Len(targetStrs) THEN [items |-> << >>, obj |-> finalLangObj]
  ELSE
    LET curr == targetStrs[i]
        text == curr.text
        found == findMatchKey(finalLangObj, text)
        key == IF found # NULL THEN ReplaceAll(found, "-", "_") ELSE found
        transText == IF i <= Len(translateTexts) THEN camelCase(translateTexts[i])
                     ELSE UNDEFINED
        transKey == InlineTransKey(suggestion, langsPrefix, transText)
        occurTime == InlineOccurTime(finalLangObj, transKey, text, 1)
        newKey == IF occurTime >= 2 THEN transKey \o <<ToString(occurTime)>> ELSE transKey
        step ==
          IF ~VmHas(vm, text) THEN
            IF key # NULL
            THEN [item |-> [target |-> curr, key |-> key, needWrite |-> FALSE],
                  obj |-> finalLangObj, vm |-> vm \cup {<<text, key>>}]
            ELSE [item |-> [target |-> curr, key |-> newKey, needWrite |-> TRUE],
                  obj |-> ObjSet(finalLangObj, newKey, text),
                  vm |-> vm \cup {<<text, newKey>>}]
          ELSE [item |-> [target |-> curr, key |-> VmGet(vm, text), needWrite |-> TRUE],
                obj |-> finalLangObj, vm |-> vm]
        rest == InlineReplaceableFrom(suggestion, langsPrefix, translateTexts, targetStrs,
                                      i + 1, step.obj, step.vm)
    IN  [items |-> <<step.item>> \o rest.items, obj |-> rest.obj]

getReplaceableStrsInline(currentFilename, langsPrefix, translateTexts, targetStrs, finalLangObj) ==
  InlineReplaceableFrom(getSuggestion(currentFilename), langsPrefix, translateTexts,
                        targetStrs, 1, finalLangObj, {})

\* ------------------------------------------------------------------------
\* replace.ts: the rewriter
\* ------------------------------------------------------------------------

isScriptFile(filePath) ==
  \/ EndsWith(filePath, ExtTs) \/ EndsWith(filePath, ExtTsx)
  \/ EndsWith(filePath, ExtJs) \/ EndsWith(filePath, ExtJsx)

isVueFile(filePath) == EndsWith(filePath, ExtVue)

\* The backward scan of isInVueInterpolation from pos: the position of the
\* nearest "{{" before it (-1 when there is none) and of the "}}" met last.
RECURSIVE InterpolationScan(_, _, _)
InterpolationScan(code, pos, closePos) ==
  IF pos < 0 THEN [openPos |-> -1, closePos |-> closePos]
  ELSE IF pos > 0 /\ CharAt(code, pos - 1) = "{" /\ CharAt(code, pos) = "{"
       THEN [openPos |-> pos - 1, closePos |-> closePos]
  ELSE IF pos > 0 /\ CharAt(code, pos - 1) = "}" /\ CharAt(code, pos) = "}"
       THEN InterpolationScan(code, pos - 1, pos - 1)
  ELSE InterpolationScan(code, pos - 1, closePos)

isInVueInterpolation(code, start) ==
  LET r == InterpolationScan(code, start - 1, -1)
      foundOpen == r.openPos # -1
      foundClose == r.closePos # -1
  IN  IF foundOpen
      THEN IF foundClose /\ r.closePos > r.openPos
           THEN start > r.openPos /\ start < r.closePos + 2
           ELSE TRUE
      ELSE FALSE

isTemplateString(code, start) == JsSlice(code, start - 1, start) = <<BACKTICK>>

isPropertyAssignment(code, start) ==
  LET two == JsSlice(code, start - 1, start + 1)
  IN  two # << >> /\ two[1] = "="

\* text.match(/(\$\{[^\}]+?\})/g): the interpolations of the text from
\* offset i on, each with its offsets [p, q].
RECURSIVE VarInStr(_, _)
VarInStr(text, i) ==
  LET p == IndexOf(text, "${", i)
      q == IF p = -1 THEN -1 ELSE IndexOf(text, "}", p + 1)
  IN  IF p = -1 \/ q = -1 THEN << >>
      ELSE IF q = p + 1 THEN VarInStr(text, p + 1)
      ELSE <<JsSlice(text, p, q + 1)>> \o VarInStr(text, q + 1)

\* String.prototype.replace(str, rep) with a string pattern: the first
\* occurrence only.
RECURSIVE ReplaceFirst(_, _, _)
ReplaceFirst(s, pat, rep) ==
  IF Len(s) < Len(pat) \/ pat = << >> THEN s
  ELSE IF SubSeq(s, 1, Len(pat)) = pat THEN rep \o SubSeq(s, Len(pat) + 1, Len(s))
  ELSE <<Head(s)>> \o ReplaceFirst(Tail(s), pat, rep)

Placeholder(index) == <<"{", "val", ToString(index), "}">>

\* The pairs "valN: expr" of handleTemplateString joined by ",\n".
RECURSIVE KvPairs(_, _)
KvPairs(vars, index) ==
  IF index > Len(vars) THEN << >>
  ELSE (IF index > 1 THEN <<",", "\n">> ELSE << >>)
       \o <<"val", ToString(index), ":", " ">>
       \o SubSeq(vars[index], 2, Len(vars[index]) - 1)
       \o KvPairs(vars, index + 1)

RECURSIVE ReplaceVars(_, _, _)
ReplaceVars(text, vars, index) ==
  IF index > Len(vars) THEN text
  ELSE ReplaceVars(ReplaceFirst(text, vars[index], Placeholder(index)), vars, index + 1)

handleTemplateString(text, val) ==
  LET varInStr == VarInStr(text, 0)
  IN  IF varInStr = << >> THEN [replaceVal |-> val, replaceText |-> text]
      ELSE [replaceVal |-> <<LOOKUP, ".", "template", "(">> \o val \o <<",", " ", "{", " ">>
                           \o KvPairs(varInStr, 1) \o <<" ", "}", ")">>,
            replaceText |-> ReplaceVars(text, varInStr, 1)]

\* generateReplaceValue without the test of the kind of file.
generateReplaceValueOneBrace(val, isHtml, isVue, isPropertyAssignmentFlag, isTemplateStringFlag, isInVueInterpolationFlag) ==
  IF isPropertyAssignmentFlag THEN <<"{">> \o val \o <<"}">> ELSE val

generateReplaceValue(val, isHtml, isVue, isPropertyAssignmentFlag, isTemplateStringFlag, isInVueInterpolationFlag) ==
  IF isPropertyAssignmentFlag
  THEN IF isHtml \/ isVue THEN <<"{", "{">> \o val \o <<"}", "}">>
       ELSE <<"{">> \o val \o <<"}">>
  ELSE val

\* The replacement that resumes the old code at the start of the span.
generateNonStringReplacementFromStart(code, start, end, val, isHtml, isVue) ==
  IF isHtml \/ isVue
  THEN JsSlice(code, 0, start) \o <<"{", "{">> \o val \o <<"}", "}">> \o JsSliceFrom(code, start)
  ELSE JsSlice(code, 0, start) \o <<"{">> \o val \o <<"}">> \o JsSliceFrom(code, start)

generateNonStringReplacement(code, start, end, val, isHtml, isVue) ==
  IF isHtml \/ isVue
  THEN JsSlice(code, 0, start) \o <<"{", "{">> \o val \o <<"}", "}">> \o JsSliceFrom(code, end)
  ELSE JsSlice(code, 0, start) \o <<"{">> \o val \o <<"}">> \o JsSliceFrom(code, end)

\* replaceAndUpdate up to its call of writeUpdatedFile: the new code of the
\* file and the text that goes to the catalog.
replaceAndUpdate(filePath, arg, val, code) ==
  LET isHtml == EndsWith(filePath, ExtHtml)
      isVue == EndsWith(filePath, ExtVue)
      start == arg.range.start
      end == arg.range.end
      isPropertyAssignmentFlag == isPropertyAssignment(code, start)
      isTemplateStringFlag == isTemplateString(code, start)
      isInVueInterpolationFlag == isInVueInterpolation(code, start)
      templateResult == handleTemplateString(arg.text, val)
      finalReplaceVal ==
        IF isTemplateStringFlag THEN templateResult.replaceVal
        ELSE generateReplaceValue(val, isHtml, isVue, isPropertyAssignmentFlag,
                                  isTemplateStringFlag, isInVueInterpolationFlag)
      finalReplaceText ==
        IF arg.isString /\ isTemplateStringFlag THEN templateResult.replaceText
        ELSE arg.text
      openPos == LastIndexOf2(code, "{", "{", start)
      closePos == IndexOf2(code, "}", "}", end)
  IN  IF arg.isString THEN
        IF /\ isVue /\ isInVueInterpolationFlag
           /\ openPos # -1 /\ closePos # -1 /\ start >= openPos /\ end <= closePos + 2
        THEN [newCode |-> JsSlice(code, 0, openPos + 2) \o finalReplaceVal
                          \o JsSliceFrom(code, closePos),
              text |-> finalReplaceText]
        ELSE [newCode |-> JsSlice(code, 0, start) \o finalReplaceVal \o JsSliceFrom(code, end),
              text |-> finalReplaceText]
      ELSE [newCode |-> generateNonStringReplacement(code, start, end, val, isHtml, isVue),
            text |-> finalReplaceText]

\* ------------------------------------------------------------------------
\* replace.ts: the catalog writer
\* ------------------------------------------------------------------------

\* a is a path strictly below p: p followed by '.' and more.
IsBelow(a, p) == Len(a) > Len(p) + 1 /\ StartsWith(a, p \o <<".">>)

\* The entries of obj that are not at positions of the set.
RECURSIVE DropAt(_, _, _)
DropAt(obj, drop, i) ==
  IF i > Len(obj) THEN << >>
  ELSE (IF i \in drop THEN << >> ELSE <<obj[i]>>) \o DropAt(obj, drop, i + 1)

\* The parent paths of a key, nearest first: a.b.c gives a.b, a.
RECURSIVE Parents(_)
Parents(segs) ==
  IF Len(segs) <= 1 THEN << >>
  ELSE LET up == SubSeq(segs, 1, Len(segs) - 1) IN <<JoinDot(up)>> \o Parents(up)

\* Where a new property lands in the flattened catalog: behind the last
\* entry of the nearest object on its path that exists already.
RECURSIVE InsertPos(_, _)
InsertPos(obj, parents) ==
  IF parents = << >> THEN Len(obj)
  ELSE
    LET under == {i \in 1..Len(obj) : IsBelow(obj[i].k, Head(parents))}
    IN  IF under # {} THEN CHOOSE i \in under : \A j \in under : j <= i
        ELSE InsertPos(obj, Tail(parents))

\* _.set(obj, key, value) on the object tree, seen through its flattened
\* entries: a string on the path of the key, or the object at the key,
\* gives way to the new property and keeps its place.
TreeSet(obj, key, value) ==
  LET gone == {i \in 1..Len(obj) : IsBelow(obj[i].k, key) \/ IsBelow(key, obj[i].k)}
      entry == [k |-> key, v |-> value]
  IN  IF key \in Keys(obj) THEN ObjSet(obj, key, value)
      ELSE IF gone # {} THEN
        LET first == CHOOSE i \in gone : \A j \in gone : i <= j
        IN  DropAt([i \in 1..Len(obj) |-> IF i = first THEN entry ELSE obj[i]],
                   gone \ {first}, 1)
      ELSE
        LET at == InsertPos(obj, Parents(SplitDot(key)))
        IN  SubSeq(obj, 1, at) \o <<entry>> \o SubSeq(obj, at + 1, Len(obj))

\* fs.existsSync(targetFilename): the namespace file holds some entry.
LangFileExists(obj, filename) ==
  \E i \in 1..Len(obj) : SplitDot(obj[i].k)[1] = filename

\* _.get(obj, key) !== undefined: the key holds a string, or an object with
\* entries below it.
LodashGetDefined(obj, key) ==
  key \in Keys(obj) \/ \E i \in 1..Len(obj) : IsBelow(obj[i].k, key)

\* updateExistingLangFile throws Error('duplicate').
updateExistingLangFileThrows(obj, key, validateDuplicate) ==
  validateDuplicate /\ LodashGetDefined(obj, key)

\* updateExistingLangFile with validateDuplicate false.
updateExistingLangFile(obj, key, text) == TreeSet(obj, key, Deescape(text))

\* generateNewLangFile: a file of the one entry.
generateNewLangFile(obj, key, text) == TreeSet(obj, key, text)

\* updateLangFiles with the test of its first line turned around.
updateLangFilesGuardInverted(obj, keyValue, text) ==
  IF StartsWith(keyValue, <<LOOKUP, ".">>) THEN obj
  ELSE updateExistingLangFile(obj, JoinDot(Tail(SplitDot(keyValue))), text)

\* updateLangFiles: the catalog after the write of keyValue -> text.
updateLangFiles(obj, keyValue, text) ==
  IF ~StartsWith(keyValue, <<LOOKUP, ".">>) THEN obj
  ELSE
    LET parts == SplitDot(keyValue)
        filename == IF Len(parts) >= 2 THEN parts[2] ELSE UNDEFINED
        key == JoinDot(Tail(parts))
    IN  IF ~LangFileExists(obj, filename)
        THEN generateNewLangFile(obj, key, text)
        ELSE updateExistingLangFile(obj, key, text)

\* ------------------------------------------------------------------------
\* replace.ts: the main language file (index), which imports every
\* namespace file and lists it in its default export
\* ------------------------------------------------------------------------

\* import <filename> from './<filename>';
ImportOf(filename) == <<"import ", filename, " from './", filename, "';">>

EXPORT_ASSIGN == "export default Object.assign({}, {"
EXPORT_PLAIN == "export default {"
CLOSE_ASSIGN == "});"
CLOSE_PLAIN == "};"

createNewMainLangFile(filename) ==
  ImportOf(filename) \o <<"\n", "\n", EXPORT_ASSIGN, "\n", "  ", filename, ",", "\n", CLOSE_ASSIGN>>

\* The first index >= i of the lexeme in the content, or 0.
RECURSIVE FirstAt(_, _, _)
FirstAt(content, lexeme, i) ==
  IF i > Len(content) THEN 0
  ELSE IF content[i] = lexeme THEN i
  ELSE FirstAt(content, lexeme, i + 1)

\* The end of the first match of /^(\s*import.*?;)$/m from index i on: an
\* import at the start of a line whose ';' ends a line.
RECURSIVE FirstImportEnd(_, _)
FirstImportEnd(content, i) ==
  IF i > Len(content) THEN 0
  ELSE IF content[i] = "import " /\ (i = 1 \/ content[i - 1] \in {"\n", "  ", " "}) THEN
    LET j == FirstAt(content, "';", i)
    IN  IF j # 0 /\ (j = Len(content) \/ content[j + 1] = "\n") THEN j
        ELSE FirstImportEnd(content, i + 1)
  ELSE FirstImportEnd(content, i + 1)

addImportStatement(content, filename) ==
  LET j == FirstImportEnd(content, 1)
  IN  IF j = 0 THEN content
      ELSE SubSeq(content, 1, j) \o <<"\n">> \o ImportOf(filename)
           \o SubSeq(content, j + 1, Len(content))

\* One of the two blocks of addExportStatement, for the closing lexeme.
AddMemberBefore(content, filename, closing) ==
  LET c == FirstAt(content, closing, 1)
      \* the first closing lexeme that follows "," "\n", and the first that follows "\n"
      AfterComma(i) == i >= 3 /\ content[i - 1] = "\n" /\ content[i - 2] = ","
      AfterNewline(i) == i >= 2 /\ content[i - 1] = "\n"
      closings == {i \in 1..Len(content) : content[i] = closing}
      Put(i, new) == SubSeq(content, 1, i - 1) \o new \o SubSeq(content, i, Len(content))
  IN  IF c = 0 THEN content
      ELSE IF \E i \in closings : AfterComma(i)
      THEN Put(c, <<"  ", filename, ",", "\n">>)
      ELSE IF \E i \in closings : AfterNewline(i)
      THEN LET n == CHOOSE i \in closings :
                      AfterNewline(i) /\ \A k \in closings : AfterNewline(k) => i <= k
           IN  Put(n - 1, <<",", "\n", "  ", filename, ",">>)
      ELSE content

addExportStatement(content, filename) ==
  AddMemberBefore(AddMemberBefore(content, filename, CLOSE_ASSIGN), filename, CLOSE_PLAIN)

\* addImportToMainLangFile: the content written to the main language file.
addImportToMainLangFile(exists, content, newFilename) ==
  IF exists
  THEN addExportStatement(addImportStatement(content, newFilename), newFilename)
  ELSE createNewMainLangFile(newFilename)

\* ------------------------------------------------------------------------
\* replace.ts: the import of the lookup symbol
\* ------------------------------------------------------------------------

\* The import declarations of the model, each one lexeme of a code.
IMPORT_NAMED == "import { I18N } from 'src/utils/I18N';"
IMPORT_NAMESPACE == "import * as I18N from 'src/utils/I18N';"
IMPORT_DEFAULT_AND_NAMED == "import utils, { I18N } from 'src/utils';"
IMPORT_DEFAULT_AND_NAMESPACE == "import utils, * as I18N from 'src/utils';"
IMPORT_OTHER == "import { x } from 'x';"
IMPORT_SIDE_EFFECT == "import 'x';"

ImportStatements ==
  {IMPORT_I18N, IMPORT_NAMED, IMPORT_NAMESPACE, IMPORT_DEFAULT_AND_NAMED,
   IMPORT_DEFAULT_AND_NAMESPACE, IMPORT_OTHER, IMPORT_SIDE_EFFECT}

NoBindings == [kind |-> "none", names |-> {}]
NamedImports(names) == [kind |-> "NamedImports", names |-> names]
NamespaceImport(name) == [kind |-> "NamespaceImport", names |-> {name}]
ImportClause(name, namedBindings) ==
  [kind |-> "ImportClause", name |-> name, namedBindings |-> namedBindings]

\* importDeclaration.importClause as ts.createSourceFile builds it; the
\* name of a clause without default import is "", and a declaration
\* without clause has none.
ImportClauseOf(stmt) ==
  CASE stmt = IMPORT_I18N -> ImportClause(LOOKUP, NoBindings)
    [] stmt = IMPORT_NAMED -> ImportClause("", NamedImports({LOOKUP}))
    [] stmt = IMPORT_NAMESPACE -> ImportClause("", NamespaceImport(LOOKUP))
    [] stmt = IMPORT_DEFAULT_AND_NAMED -> ImportClause("utils", NamedImports({LOOKUP}))
    [] stmt = IMPORT_DEFAULT_AND_NAMESPACE -> ImportClause("utils", NamespaceImport(LOOKUP))
    [] stmt = IMPORT_OTHER -> ImportClause("", NamedImports({"x"}))
    [] OTHER -> [kind |-> "undefined", name |-> "", namedBindings |-> NoBindings]

checkNamedBindings(namedBindings) ==
  IF namedBindings.kind = "NamedImports" THEN LOOKUP \in namedBindings.names
  ELSE IF namedBindings.kind = "NamespaceImport" THEN namedBindings.names = {LOOKUP}
  ELSE FALSE

checkImportClause(importClause) ==
  IF importClause.kind = "ImportClause"
  THEN IF importClause.name # "" THEN importClause.name = LOOKUP
       ELSE checkNamedBindings(importClause.namedBindings)
  ELSE FALSE

\* hasImportI18N: some top-level import declaration binds I18N.  The file
\* is parsed as TSX whatever its dialect; the top-level statements of a
\* component file are its section elements, whose content is text, so no
\* import declaration is found in one.
hasImportI18N(filePath, code) ==
  /\ ~isVueFile(filePath)
  /\ \E i \in 1..Len(code) :
       code[i] \in ImportStatements /\ checkImportClause(ImportClauseOf(code[i]))

importStatement == <<IMPORT_I18N, "\n">>

addImportToScriptFile(code, stmt) ==
  LET pos == SkipTrivia(code, 0, Len(code))
  IN  JsSlice(code, 0, pos) \o stmt \o JsSliceFrom(code, pos)

\* code.replace(/<script>/g, ...)
RECURSIVE addImportToVueFile(_, _)
addImportToVueFile(code, stmt) ==
  IF code = << >> THEN << >>
  ELSE IF Head(code) = "<script>"
       THEN <<"<script>", "\n">> \o stmt \o addImportToVueFile(Tail(code), stmt)
  ELSE <<Head(code)>> \o addImportToVueFile(Tail(code), stmt)

createImportI18N(filePath, code) ==
  IF isScriptFile(filePath) THEN addImportToScriptFile(code, importStatement)
  ELSE IF isVueFile(filePath) THEN addImportToVueFile(code, importStatement)
  ELSE code

\* ------------------------------------------------------------------------
\* The source trees, catalogs and translator outputs of the model
\* ------------------------------------------------------------------------

T1 == <<"Z1">>
T2 == <<"Z2">>

\* /a/a.ts:  x = 'Z1';
File1 == [path |-> <<"/", "a", "/", "a", ".", "t", "s">>,
          code |-> <<"x", " ", "=", " ", "'", "Z1", "'", ";">>]
\* /a/ti.ts:  'Z1'+'Z2'+'Z1'
File2 == [path |-> <<"/", "a", "/", "t", "i", ".", "t", "s">>,
          code |-> <<"'", "Z1", "'", "+", "'", "Z2", "'", "+", "'", "Z1", "'">>]
\* /a/c.vue:  <template><b>{{ 'Z2' }}</b></template><script lang=ts>x = 'Z1'</script>
File3 == [path |-> <<"/", "a", "/", "c", ".", "v", "u", "e">>,
          code |-> <<"<template>", "<b>", "{", "{", " ", "'", "Z2", "'", " ", "}", "}",
                     "</b>", "</template>",
                     "<script lang=ts>", "x", " ", "=", " ", "'", "Z1", "'", "</script>">>]
\* /a/b.vue:  <template><b>Z1</b></template><script>x</script>
File4 == [path |-> <<"/", "a", "/", "b", ".", "v", "u", "e">>,
          code |-> <<"<template>", "<b>", "Z1", "</b>", "</template>",
                     "<script>", "x", "</script>">>]
\* /a-b/x.tsx:  import I18N from 'src/utils/I18N';\n<b> Z2</b>
File5 == [path |-> <<"/", "a", "-", "b", "/", "x", ".", "t", "s", "x">>,
          code |-> <<IMPORT_I18N, "\n", "<b>", " ", "Z2", "</b>">>]
\* /a/n.ts:  y = BQ Z3\n${'Z1'} BQ   (a template literal with an interpolation)
File6 == [path |-> <<"/", "a", "/", "n", ".", "t", "s">>,
          code |-> <<"x", " ", "=", " ", BACKTICK, "Z3", "\\", "n", "${", "'", "Z1", "'",
                     "}", BACKTICK>>]
\* /a/e.js:  x = 'Z1   (the string literal is not closed)
File7 == [path |-> <<"/", "a", "/", "e", ".", "j", "s">>,
          code |-> <<"x", " ", "=", " ", "'", "Z1">>]

Library == <<File1, File2, File3, File4, File5, File6, File7>>

\* The files of one tree: at most MaxFiles files of the library, in the
\* order in which the walker lists them.
MaxFiles == 2

RECURSIVE Pick(_, _)
Pick(idx, i) ==
  IF i > Len(Library) THEN << >>
  ELSE (IF i \in idx THEN <<Library[i]>> ELSE << >>) \o Pick(idx, i + 1)

Trees == {Pick(idx, 1) : idx \in {x \in SUBSET (1..Len(Library)) :
                                     Cardinality(x) >= 1 /\ Cardinality(x) <= MaxFiles}}

KeyABTi == <<"a", "_", "b", ".", "t", "i">>
KeyATi == <<"a", ".", "t", "i">>

\* The catalogs a run may start from.
Catalogs == { << >>,
              <<[k |-> KeyABTi, v |-> T2]>>,
              <<[k |-> KeyATi, v |-> T2]>> }

\* The --prefix of the run, after its leading "I18N." is stripped.
Prefixes == {NULL, <<"a", "-", "b">>}

\* The tokens a translator may return for a fragment.
TransTokens == {<<"t", "i">>, <<"x", " ", "j">>}

\* The translator outputs for n fragments.
RECURSIVE TokenLists(_)
TokenLists(n) ==
  IF n = 0 THEN {<< >>}
  ELSE {<<t>> \o rest : t \in TransTokens, rest \in TokenLists(n - 1)}

\* The values of defaultTranslateKeyApi in the configuration file: one that
\* extractAll knows, one that it does not know, and NoApi for a
\* configuration without the item.  (The model of the translator is the same
\* for Pinyin, Google and Baidu.)
NoApi == "<unset>"
Apis == {"Pinyin", "Youdao", NoApi}

\* The number of translator calls and writes that may fail, and of runs of
\* the pipeline.
MaxFaults == 1
MaxRuns == 2

\* ------------------------------------------------------------------------
\* State
\* ------------------------------------------------------------------------

VARIABLES
  files,            \* the paths of the tree, in the walker's order
  fs,               \* the content on disk of each file of the tree
  langs,            \* the catalog on disk, flattened, in insertion order
  langsPrefix,      \* the prefix of extractAll
  pc,               \* where extractAll stands
  allTargetStrs,    \* the work items of findAllChineseText
  cur,              \* the work item in progress
  replaceableStrs,  \* the replace items of the file in progress
  ri,               \* the replace item in progress
  pending,          \* replaceAndUpdate between its two writes
  run,              \* the number of the run of extractAll
  faults,           \* the translator calls and writes that have failed
  fs0,              \* history: the tree when the run began
  langs0,           \* history: the catalog when the run began
  sent,             \* history: the spans handed to the translator, per file
  sites,            \* history: the spans written into the source, in order
  failed,           \* history: the files whose rewrite was aborted, and at which step
  skipped,          \* history: the files left out for want of a translation
  clean,            \* history: no file of the previous run was skipped or aborted
  dedup,            \* the inputs and result of deduplicateKey (SpecDedup)
  api,              \* CONFIG.defaultTranslateKeyApi
  call              \* the arguments and result of one call of a function (SpecCalls)

vars == <<files, fs, langs, langsPrefix, pc, allTargetStrs, cur, replaceableStrs, ri,
          pending, run, faults, fs0, langs0, sent, sites, failed, skipped, clean, dedup, api, call>>

pipeVars == <<files, fs, langs, langsPrefix, pc, allTargetStrs, cur, replaceableStrs, ri,
              pending, run, faults, fs0, langs0, sent, sites, failed, skipped, clean, api>>

NoPending == [newCode |-> << >>, text |-> << >>, val |-> << >>]

Init ==
  /\ \E tree \in Trees :
       /\ files = [i \in 1..Len(tree) |-> tree[i].path]
       /\ fs = [i \in 1..Len(tree) |-> tree[i].code]
       /\ fs0 = [i \in 1..Len(tree) |-> tree[i].code]
  /\ langs \in Catalogs
  /\ langs0 = langs
  /\ langsPrefix \in Prefixes
  /\ pc = "start"
  /\ allTargetStrs = << >>
  /\ cur = 0
  /\ replaceableStrs = << >>
  /\ ri = 0
  /\ pending = NoPending
  /\ run = 1
  /\ faults = 0
  /\ sent = << >>
  /\ sites = << >>
  /\ failed = {}
  /\ skipped = {}
  /\ clean = TRUE
  /\ dedup = << >>
  /\ api \in Apis
  /\ call = << >>

\* ------------------------------------------------------------------------
\* extract.ts: the orchestrator
\* ------------------------------------------------------------------------

\* The extension filter of findAllChineseText.
IsCodeFile(file) ==
  \/ EndsWith(file, ExtTs) \/ EndsWith(file, ExtTsx) \/ EndsWith(file, ExtVue)
  \/ EndsWith(file, ExtJs) \/ EndsWith(file, ExtJsx)

\* The reduce of findAllChineseText over the files from the i-th on.
RECURSIVE WorkItemsFrom(_, _, _)
WorkItemsFrom(paths, disk, i) ==
  IF i > Len(paths) THEN << >>
  ELSE
    LET texts == IF IsCodeFile(paths[i]) THEN findChineseText(disk[i], paths[i]) ELSE << >>
    IN  (IF Len(texts) > 0 THEN <<[file |-> i, texts |-> sortTexts(texts)]>> ELSE << >>)
        \o WorkItemsFrom(paths, disk, i + 1)

findAllChineseText(paths, disk) == WorkItemsFrom(paths, disk, 1)

\* findChineseText throws for one of the files: the reduce of
\* findAllChineseText has no try/catch and the exception leaves it.
findAllChineseTextThrows(paths, disk) ==
  \E i \in 1..Len(paths) : IsCodeFile(paths[i]) /\ findChineseTextThrows(disk[i], paths[i])

\* The test made on origin, which is 'Pinyin' when the item is not set.
ApiSupportedOrigin(configured) ==
  (IF configured = NoApi THEN "Pinyin" ELSE configured) \in {"Pinyin", "Google", "Baidu"}

\* ['Pinyin', 'Google', 'Baidu'].includes(CONFIG.defaultTranslateKeyApi)
ApiSupported(configured) == configured \in {"Pinyin", "Google", "Baidu"}

\* extractAll returns at once: the translator of the configuration is not
\* one that it knows.
RejectApi ==
  /\ pc = "start"
  /\ ~ApiSupported(api)
  /\ pc' = "rejected"
  /\ UNCHANGED <<files, fs, langs, langsPrefix, allTargetStrs, cur, replaceableStrs, ri,
                 pending, run, faults, fs0, langs0, sent, sites, failed, skipped, clean, dedup, api, call>>

\* extractAll up to its loop over the work items.
Discover ==
  /\ pc = "start"
  /\ ApiSupported(api)
  /\ ~findAllChineseTextThrows(files, fs)
  /\ allTargetStrs' = findAllChineseText(files, fs)
  /\ pc' = IF allTargetStrs' = << >> THEN "done" ELSE "file"
  /\ cur' = 1
  /\ UNCHANGED <<files, fs, langs, langsPrefix, replaceableStrs, ri, pending, run, faults,
                 fs0, langs0, sent, sites, failed, skipped, clean, dedup, api, call>>

\* extractAll calls findAllChineseText outside any try/catch: the exception
\* of a parser ends the command before a work item exists.
DiscoverThrows ==
  /\ pc = "start"
  /\ ApiSupported(api)
  /\ findAllChineseTextThrows(files, fs)
  /\ pc' = "crashed"
  /\ UNCHANGED <<files, fs, langs, langsPrefix, allTargetStrs, cur, replaceableStrs, ri,
                 pending, run, faults, fs0, langs0, sent, sites, failed, skipped, clean, dedup, api, call>>

\* The files whose rewrite ended in the catch of generateKeyAndReplaceFile.
FailedFiles == {r.file : r \in failed}

\* The loop of extractAll with the rewrite of the next file begun at once,
\* before the translator has been asked about it.
AfterFileBeginsRewrite == IF cur >= Len(allTargetStrs) THEN "done" ELSE "lang"

\* The step of the loop of extractAll to the next work item.
AfterFile == IF cur >= Len(allTargetStrs) THEN "done" ELSE "file"

\* generateKeyAndReplaceFile: the translator answers with one token for each
\* span; the keys are synthesized against the catalog read from disk.
Synthesize ==
  /\ pc = "file"
  /\ LET item == allTargetStrs[cur]
         targetStrs == filterTargetStrs(item.texts)
     IN  \E translateTexts \in TokenLists(Len(targetStrs)) :
           /\ replaceableStrs' = getReplaceableStrs(files[item.file], langsPrefix,
                                                    translateTexts, targetStrs, langs).items
           /\ sent' = Append(sent, [file |-> item.file,
                                    starts |-> [i \in 1..Len(targetStrs) |->
                                                  targetStrs[i].range.start]])
  /\ ri' = 1
  /\ pc' = "lang"
  /\ UNCHANGED <<files, fs, langs, langsPrefix, allTargetStrs, cur, pending, run, faults,
                 fs0, langs0, sites, failed, skipped, clean, dedup, api, call>>

\* The file is left out and the import of the lookup symbol is added to it
\* all the same.
NoTranslationInjectsImport ==
  /\ pc = "file"
  /\ faults < MaxFaults
  /\ faults' = faults + 1
  /\ skipped' = skipped \cup {allTargetStrs[cur].file}
  /\ LET file == allTargetStrs[cur].file
     IN  fs' = [fs EXCEPT ![file] = createImportI18N(files[file], fs[file])]
  /\ pc' = AfterFile
  /\ cur' = cur + 1
  /\ UNCHANGED <<files, langs, langsPrefix, allTargetStrs, replaceableStrs, ri, pending,
                 run, fs0, langs0, sent, sites, failed, clean, dedup, api, call>>

\* generateKeyAndReplaceFile: the translator answers with nothing and the
\* file is left out.
NoTranslation ==
  /\ pc = "file"
  /\ faults < MaxFaults
  /\ faults' = faults + 1
  /\ skipped' = skipped \cup {allTargetStrs[cur].file}
  /\ pc' = AfterFile
  /\ cur' = cur + 1
  /\ UNCHANGED <<files, fs, langs, langsPrefix, allTargetStrs, replaceableStrs, ri, pending,
                 run, fs0, langs0, sent, sites, failed, clean, dedup, api, call>>

\* batchTranslate rejects: the exception leaves the loop of extractAll, and
\* the files that remain are not looked at.
TranslatorRejects ==
  /\ pc = "file"
  /\ faults < MaxFaults
  /\ faults' = faults + 1
  /\ skipped' = skipped \cup {allTargetStrs[i].file : i \in cur..Len(allTargetStrs)}
  /\ pc' = "done"
  /\ UNCHANGED <<files, fs, langs, langsPrefix, allTargetStrs, cur, replaceableStrs, ri,
                 pending, run, fs0, langs0, sent, sites, failed, clean, dedup, api, call>>

\* writeUpdatedFile, first half: replaceAndUpdate has read the file and built
\* the new code; the catalog is written when the item needs it.
UpdateLang ==
  /\ pc = "lang"
  /\ LET item == replaceableStrs[ri]
         file == allTargetStrs[cur].file
         val == <<LOOKUP, ".">> \o item.key
         r == replaceAndUpdate(files[file], item.target, val, fs[file])
     IN  /\ pending' = [newCode |-> r.newCode, text |-> r.text, val |-> val]
         /\ langs' = IF item.needWrite THEN updateLangFiles(langs, val, r.text) ELSE langs
  /\ pc' = "write"
  /\ UNCHANGED <<files, fs, langsPrefix, allTargetStrs, cur, replaceableStrs, ri, run, faults,
                 fs0, langs0, sent, sites, failed, skipped, clean, dedup, api, call>>

\* The catch of generateKeyAndReplaceFile: the rest of the file is given up.
AbortFile ==
  /\ failed' = failed \cup {[file |-> allTargetStrs[cur].file, at |-> pc]}
  /\ faults' = faults + 1
  /\ pending' = NoPending
  /\ pc' = AfterFile
  /\ cur' = cur + 1
  /\ UNCHANGED <<files, fs, langs, langsPrefix, allTargetStrs, replaceableStrs, ri, run,
                 fs0, langs0, sent, sites, skipped, clean, dedup, api, call>>

\* updateLangFiles throws.
UpdateLangFails ==
  /\ pc = "lang"
  /\ replaceableStrs[ri].needWrite
  /\ faults < MaxFaults
  /\ AbortFile

\* writeUpdatedFile, second half: the new code is written to the file.
WriteSource ==
  /\ pc = "write"
  /\ LET item == replaceableStrs[ri]
         file == allTargetStrs[cur].file
     IN  /\ fs' = [fs EXCEPT ![file] = pending.newCode]
         /\ sites' = Append(sites, [file |-> file, range |-> item.target.range,
                                    text |-> item.target.text, key |-> item.key,
                                    needWrite |-> item.needWrite,
                                    stored |-> pending.text])
  /\ pending' = NoPending
  /\ ri' = ri + 1
  /\ pc' = IF ri >= Len(replaceableStrs) THEN "import" ELSE "lang"
  /\ UNCHANGED <<files, langs, langsPrefix, allTargetStrs, cur, replaceableStrs, run, faults,
                 fs0, langs0, sent, failed, skipped, clean, dedup, api, call>>

\* writeFile throws.
WriteSourceFails ==
  /\ pc = "write"
  /\ faults < MaxFaults
  /\ AbortFile

\* The last step of generateKeyAndReplaceFile: the import of the lookup
\* symbol is added when hasImportI18N finds none.
InjectImport ==
  /\ pc = "import"
  /\ LET file == allTargetStrs[cur].file
     IN  fs' = IF ~hasImportI18N(files[file], fs[file])
               THEN [fs EXCEPT ![file] = createImportI18N(files[file], fs[file])]
               ELSE fs
  /\ pc' = AfterFile
  /\ cur' = cur + 1
  /\ UNCHANGED <<files, langs, langsPrefix, allTargetStrs, replaceableStrs, ri, pending, run,
                 faults, fs0, langs0, sent, sites, failed, skipped, clean, dedup, api, call>>

\* The writeFile of the import throws.
InjectImportFails ==
  /\ pc = "import"
  /\ ~hasImportI18N(files[allTargetStrs[cur].file], fs[allTargetStrs[cur].file])
  /\ faults < MaxFaults
  /\ AbortFile

\* extractAll is run again over the same tree.
Rerun ==
  /\ pc = "done"
  /\ run < MaxRuns
  /\ run' = run + 1
  /\ pc' = "start"
  /\ fs0' = fs
  /\ langs0' = langs
  /\ clean' = (failed = {} /\ skipped = {})
  /\ allTargetStrs' = << >>
  /\ cur' = 0
  /\ replaceableStrs' = << >>
  /\ ri' = 0
  /\ sent' = << >>
  /\ sites' = << >>
  /\ failed' = {}
  /\ skipped' = {}
  /\ UNCHANGED <<files, fs, langs, langsPrefix, pending, faults, dedup, api, call>>

Next ==
  \/ RejectApi
  \/ Discover
  \/ DiscoverThrows
  \/ Synthesize
  \/ NoTranslation
  \/ TranslatorRejects
  \/ UpdateLang
  \/ UpdateLangFails
  \/ WriteSource
  \/ WriteSourceFails
  \/ InjectImport
  \/ InjectImportFails
  \/ Rerun

Spec == Init /\ [][Next]_vars

\* ------------------------------------------------------------------------
\* deduplicateKey on its own
\* ------------------------------------------------------------------------

\* The keys B, B2, .. B<MaxSuffix> may be in the catalog that deduplicateKey
\* is given.
MaxSuffix == 3

BaseKey == KeyATi
OtherKey == <<"a", ".", "x", "J">>

\* The catalogs over the keys of the list, each key absent or bound to T1 or T2.
RECURSIVE CatalogsOver(_)
CatalogsOver(keys) ==
  IF keys = << >> THEN {<< >>}
  ELSE {e \o rest : e \in {<< >>} \cup {<<[k |-> Head(keys), v |-> t]>> : t \in {T1, T2}},
                    rest \in CatalogsOver(Tail(keys))}

DedupKeys == [n \in 1..MaxSuffix |-> Suffixed(BaseKey, n)] \o <<OtherKey>>

InitDedup ==
  /\ \E obj \in CatalogsOver(DedupKeys), transKey \in {BaseKey, OtherKey}, text \in {T1, T2} :
       dedup = [finalLangObj |-> obj, transKey |-> transKey, text |-> text,
                finalKey |-> NULL, after |-> << >>, done |-> FALSE]
  /\ files = << >> /\ fs = << >> /\ fs0 = << >>
  /\ langs = << >> /\ langs0 = << >>
  /\ langsPrefix = NULL
  /\ pc = "dedup"
  /\ allTargetStrs = << >> /\ cur = 0
  /\ replaceableStrs = << >> /\ ri = 0
  /\ pending = NoPending
  /\ run = 1 /\ faults = 0
  /\ sent = << >> /\ sites = << >>
  /\ failed = {} /\ skipped = {}
  /\ clean = TRUE
  /\ api = "Pinyin"
  /\ call = << >>

\* The branch of getReplaceableStrs for a text that has no key yet: the key
\* is deduplicated and the in-memory catalog binds it to the text.
Deduplicate ==
  /\ pc = "dedup"
  /\ ~dedup.done
  /\ LET finalKey == deduplicateKey(dedup.finalLangObj, dedup.transKey, dedup.text)
     IN  dedup' = [dedup EXCEPT !.finalKey = finalKey,
                                !.after = ObjSet(dedup.finalLangObj, finalKey, dedup.text),
                                !.done = TRUE]
  /\ UNCHANGED <<pipeVars, call>>

NextDedup == Deduplicate

SpecDedup == InitDedup /\ [][NextDedup]_vars

\* ------------------------------------------------------------------------
\* Single calls of the functions of extract.ts and replace.ts
\* ------------------------------------------------------------------------

\* The catalogs that updateExistingLangFile is called on.
KeyATiX == <<"a", ".", "t", "i", ".", "x">>
CallCatalogs == CatalogsOver(<<KeyATi, OtherKey>>) \cup {<<[k |-> KeyATiX, v |-> T1]>>}

UpdateCalls ==
  {[op |-> "updateExistingLangFile", obj |-> obj, key |-> key, text |-> text,
    validateDuplicate |-> v, done |-> FALSE, threw |-> FALSE, out |-> << >>] :
     obj \in CallCatalogs, key \in {KeyATi, OtherKey}, text \in {T1, T2}, v \in BOOLEAN}

\* The span lists that filterTargetStrs is called on: at most MaxSpans spans
\* over the offsets 0..MaxOffset, in an order of descending start.
MaxOffset == 4
MaxSpans == 3

Ranges == {r \in [start : 0..MaxOffset, end : 0..MaxOffset] : r.start < r.end}

RECURSIVE SpanLists(_)
SpanLists(n) ==
  IF n = 0 THEN {<< >>}
  ELSE {<< >>} \cup
       UNION {{<<Match(r.start, r.end, T1, TRUE)>> \o rest :
                 rest \in {l \in SpanLists(n - 1) :
                             l = << >> \/ l[1].range.start <= r.start}} : r \in Ranges}

FilterCalls ==
  {[op |-> "filterTargetStrs", texts |-> texts, done |-> FALSE, out |-> << >>] :
     texts \in SpanLists(MaxSpans)}

\* The files, codes and spans that replaceAndUpdate is called on.
PathTs == File1.path
PathVue == File3.path
PathHtml == <<"/", "a", "/", "p", ".", "h", "t", "m", "l">>

RefVal == <<LOOKUP, ".">> \o KeyATi

RewriteCases ==
  { \* x='Z1'
    [code |-> <<"x", "=", "'", "Z1", "'">>, arg |-> Match(2, 5, T1, TRUE)],
    \* x = 'Z1'
    [code |-> <<"x", " ", "=", " ", "'", "Z1", "'">>, arg |-> Match(4, 7, T1, TRUE)],
    \* <b>Z1</b>
    [code |-> <<"<b>", "Z1", "</b>">>, arg |-> Match(1, 2, T1, FALSE)],
    \* <b>{{ 'Z2' }}{{ 'Z1' }}</b>, the first block and the second
    [code |-> <<"<b>", "{", "{", " ", "'", "Z2", "'", " ", "}", "}",
                "{", "{", " ", "'", "Z1", "'", " ", "}", "}", "</b>">>,
     arg |-> Match(4, 7, T2, TRUE)],
    [code |-> <<"<b>", "{", "{", " ", "'", "Z2", "'", " ", "}", "}",
                "{", "{", " ", "'", "Z1", "'", " ", "}", "}", "</b>">>,
     arg |-> Match(13, 16, T1, TRUE)],
    \* <b>{{ a=='Z1' }}</b>
    [code |-> <<"<b>", "{", "{", " ", "a", "=", "=", "'", "Z1", "'", " ", "}", "}", "</b>">>,
     arg |-> Match(7, 10, T1, TRUE)],
    \* <b>{{ {a:{b:'Z1'}} }}</b>
    [code |-> <<"<b>", "{", "{", " ", "{", "a", ":", "{", "b", ":", "'", "Z1", "'", "}", "}",
                " ", "}", "}", "</b>">>,
     arg |-> Match(10, 13, T1, TRUE)] }

RewriteCalls ==
  {[op |-> "replaceAndUpdate", filePath |-> path, arg |-> c.arg, val |-> RefVal,
    code |-> c.code, done |-> FALSE, out |-> NoPending] :
     path \in {PathTs, PathVue, PathHtml}, c \in RewriteCases}

\* The codes that hasImportI18N is called on: one or two statements.
ImportCodes ==
  {<<a>> : a \in ImportStatements \cup {"x"}}
  \cup {<<a, b>> : a \in ImportStatements, b \in ImportStatements \cup {"x"}}

ImportCalls ==
  {[op |-> "hasImportI18N", filePath |-> PathTs, code |-> code, done |-> FALSE, out |-> FALSE] :
     code \in ImportCodes}

\* The main language files that addImportToMainLangFile is called on.
MainLangFiles ==
  { \* as createNewMainLangFile writes it, and without the last comma
    createNewMainLangFile("common"),
    ImportOf("common") \o <<"\n", "\n", EXPORT_ASSIGN, "\n", "  ", "common", "\n", CLOSE_ASSIGN>>,
    \* export default {\n  common,\n};  and without the last comma
    ImportOf("common") \o <<"\n", "\n", EXPORT_PLAIN, "\n", "  ", "common", ",", "\n", CLOSE_PLAIN>>,
    ImportOf("common") \o <<"\n", "\n", EXPORT_PLAIN, "\n", "  ", "common", "\n", CLOSE_PLAIN>>,
    \* export default { common };
    ImportOf("common") \o <<"\n", "\n", EXPORT_PLAIN, " ", "common", " ", CLOSE_PLAIN>> }

MainLangCalls ==
  {[op |-> "addImportToMainLangFile", exists |-> TRUE, content |-> c, newFilename |-> n,
    done |-> FALSE, out |-> << >>] : c \in MainLangFiles, n \in {"a", "b"}}
  \cup {[op |-> "addImportToMainLangFile", exists |-> FALSE, content |-> << >>,
         newFilename |-> n, done |-> FALSE, out |-> << >>] : n \in {"a", "b"}}

\* The calls of getReplaceableStrs: a file path, a prefix, one or two spans,
\* the translator's answers (also one answer short) and a catalog.
SynthTargets ==
  {<<Match(4, 7, T1, TRUE)>>,
   <<Match(4, 7, T2, TRUE), Match(0, 3, T1, TRUE)>>,
   <<Match(4, 7, T1, TRUE), Match(0, 3, T1, TRUE)>>,
   <<Match(4, 7, T1, TRUE), Match(0, 3, T2, TRUE)>>}

SynthCatalogs ==
  CatalogsOver(<<KeyATi, Suffixed(KeyATi, 2)>>) \cup Catalogs
  \cup {<<[k |-> <<"a", "-", "b", ".", "t", "i">>, v |-> T1]>>}

SynthCalls ==
  UNION {{[op |-> "getReplaceableStrs", currentFilename |-> f, langsPrefix |-> prefix,
           translateTexts |-> tr, targetStrs |-> targetStrs, finalLangObj |-> obj,
           done |-> FALSE, out |-> << >>] :
            f \in {File1.path, File5.path}, prefix \in Prefixes, obj \in SynthCatalogs,
            tr \in TokenLists(Len(targetStrs)) \cup TokenLists(Len(targetStrs) - 1)} :
         targetStrs \in SynthTargets}

\* The default fragment that getTransOriginText names, as one lexeme.
SENTINEL == <<"<Chinese symbol>">>

\* The texts that getTransOriginText is called on: Z3 is a character that the
\* extractor takes as Chinese and that lies outside U+4E00..U+9FA5.
OriginTexts ==
  {<<"Z1">>, <<"Z3">>, <<"Z3", ".">>, <<"Z1", ".", "Z2">>, <<"a", " ", "Z1">>,
   <<"Z1", "Z2", "a", "b", "Z1", "Z2">>, <<"Z1", "Z3", "Z2">>}

OriginCalls ==
  {[op |-> "getTransOriginText", text |-> text, done |-> FALSE, out |-> << >>] :
     text \in OriginTexts}

\* The template records of a version-2 component file: at most one record of
\* the walk and at most two hits of render-function strings.
Vue2Calls ==
  {[op |-> "findTextInVue2Template", expressTemp |-> expressTemp, hits |-> hits,
    done |-> FALSE, out |-> << >>] :
     expressTemp \in {<< >>} \cup {<<VueTextRecord(r.start, r.end, T1, FALSE)>> : r \in Ranges},
     hits \in {<< >>} \cup {<<RenderTextRecord(r.start, r.end, T1, FALSE)>> : r \in Ranges}
               \cup {<<RenderTextRecord(r.start, r.end, T1, FALSE),
                        RenderTextRecord(q.start, q.end, T2, FALSE)>> : r \in Ranges, q \in Ranges}}

\* The files that findChineseText is called on: the files of the library
\* that parse, and HTML templates.
HtmlCodes ==
  { \* <b>Z1</b>
    <<"<b>", "Z1", "</b>">>,
    \* <b> Z1  Z2</b>
    <<"<b>", " ", "Z1", " ", " ", "Z2", "</b>">>,
    \* {{ 'Z1' }}
    <<"{", "{", " ", "'", "Z1", "'", " ", "}", "}">>,
    \* <b>{{ 'Z1' }}</b>
    <<"<b>", "{", "{", " ", "'", "Z1", "'", " ", "}", "}", "</b>">> }

ExtractCalls ==
  {[op |-> "findChineseText", code |-> Library[i].code, fileName |-> Library[i].path,
    done |-> FALSE, out |-> << >>] :
     i \in {j \in 1..Len(Library) : ~findChineseTextThrows(Library[j].code, Library[j].path)}}
  \cup {[op |-> "findChineseText", code |-> code, fileName |-> PathHtml,
         done |-> FALSE, out |-> << >>] : code \in HtmlCodes}

CallInputs == UpdateCalls \cup FilterCalls \cup RewriteCalls \cup ImportCalls \cup MainLangCalls \cup ExtractCalls \cup Vue2Calls \cup OriginCalls \cup SynthCalls

InitCalls ==
  /\ call \in CallInputs
  /\ dedup = << >>
  /\ files = << >> /\ fs = << >> /\ fs0 = << >>
  /\ langs = << >> /\ langs0 = << >>
  /\ langsPrefix = NULL
  /\ pc = "call"
  /\ allTargetStrs = << >> /\ cur = 0
  /\ replaceableStrs = << >> /\ ri = 0
  /\ pending = NoPending
  /\ run = 1 /\ faults = 0
  /\ sent = << >> /\ sites = << >>
  /\ failed = {} /\ skipped = {}
  /\ clean = TRUE
  /\ api = "Pinyin"

\* updateExistingLangFile: the duplicate test, then the write.
CallUpdateExistingLangFile ==
  /\ pc = "call"
  /\ call.op = "updateExistingLangFile"
  /\ ~call.done
  /\ call' = IF updateExistingLangFileThrows(call.obj, call.key, call.validateDuplicate)
             THEN [call EXCEPT !.done = TRUE, !.threw = TRUE, !.out = call.obj]
             ELSE [call EXCEPT !.done = TRUE,
                               !.out = updateExistingLangFile(call.obj, call.key, call.text)]
  /\ UNCHANGED <<pipeVars, dedup>>

CallFilterTargetStrs ==
  /\ pc = "call"
  /\ call.op = "filterTargetStrs"
  /\ ~call.done
  /\ call' = [call EXCEPT !.done = TRUE, !.out = filterTargetStrs(call.texts)]
  /\ UNCHANGED <<pipeVars, dedup>>

\* replaceAndUpdate up to its call of writeUpdatedFile.
CallReplaceAndUpdate ==
  /\ pc = "call"
  /\ call.op = "replaceAndUpdate"
  /\ ~call.done
  /\ LET r == replaceAndUpdate(call.filePath, call.arg, call.val, call.code)
     IN  call' = [call EXCEPT !.done = TRUE,
                              !.out = [newCode |-> r.newCode, text |-> r.text, val |-> call.val]]
  /\ UNCHANGED <<pipeVars, dedup>>

CallHasImportI18N ==
  /\ pc = "call"
  /\ call.op = "hasImportI18N"
  /\ ~call.done
  /\ call' = [call EXCEPT !.done = TRUE, !.out = hasImportI18N(call.filePath, call.code)]
  /\ UNCHANGED <<pipeVars, dedup>>

CallAddImportToMainLangFile ==
  /\ pc = "call"
  /\ call.op = "addImportToMainLangFile"
  /\ ~call.done
  /\ call' = [call EXCEPT !.done = TRUE,
                          !.out = addImportToMainLangFile(call.exists, call.content,
                                                          call.newFilename)]
  /\ UNCHANGED <<pipeVars, dedup>>

CallFindChineseText ==
  /\ pc = "call"
  /\ call.op = "findChineseText"
  /\ ~call.done
  /\ call' = [call EXCEPT !.done = TRUE, !.out = findChineseText(call.code, call.fileName)]
  /\ UNCHANGED <<pipeVars, dedup>>

CallFindTextInVue2Template ==
  /\ pc = "call"
  /\ call.op = "findTextInVue2Template"
  /\ ~call.done
  /\ call' = [call EXCEPT !.done = TRUE,
                          !.out = findTextInVue2Template(call.expressTemp, call.hits)]
  /\ UNCHANGED <<pipeVars, dedup>>

CallGetTransOriginText ==
  /\ pc = "call"
  /\ call.op = "getTransOriginText"
  /\ ~call.done
  /\ call' = [call EXCEPT !.done = TRUE, !.out = getTransOriginText(call.text)]
  /\ UNCHANGED <<pipeVars, dedup>>

\* Both versions of getReplaceableStrs are called on the same arguments.
CallGetReplaceableStrs ==
  /\ pc = "call"
  /\ call.op = "getReplaceableStrs"
  /\ ~call.done
  /\ call' = [call EXCEPT
                !.done = TRUE,
                !.out = [refactored |-> getReplaceableStrs(call.currentFilename,
                                                           call.langsPrefix,
                                                           call.translateTexts,
                                                           call.targetStrs,
                                                           call.finalLangObj),
                         inline |-> getReplaceableStrsInline(call.currentFilename,
                                                             call.langsPrefix,
                                                             call.translateTexts,
                                                             call.targetStrs,
                                                             call.finalLangObj)]]
  /\ UNCHANGED <<pipeVars, dedup>>

NextCalls ==
  \/ CallGetReplaceableStrs
  \/ CallGetTransOriginText
  \/ CallFindTextInVue2Template
  \/ CallFindChineseText
  \/ CallAddImportToMainLangFile
  \/ CallHasImportI18N
  \/ CallUpdateExistingLangFile
  \/ CallFilterTargetStrs
  \/ CallReplaceAndUpdate

SpecCalls == InitCalls /\ [][NextCalls]_vars

\* ------------------------------------------------------------------------
\* Properties
\* ------------------------------------------------------------------------

\* C1: within one run, any two spans written with the same text carry the
\* same key, in one file or in two, and when the run is over the catalog
\* holds exactly one entry for each such text (as written, or with its \n
\* sequences turned into line breaks as updateExistingLangFile stores it).
C1_SameTextSameKey ==
  /\ \A i, j \in 1..Len(sites) :
       sites[i].text = sites[j].text => sites[i].key = sites[j].key
  /\ (pc = "done" /\ failed = {}) =>
       \A i \in 1..Len(sites) :
         Cardinality({n \in 1..Len(langs) :
                        langs[n].v \in {sites[i].stored, Deescape(sites[i].stored)}}) = 1

\* C2: a key that the catalog binds keeps its value through every step of
\* the run, and no two spans with different texts are given the same key.
C2_KeyNeverRebound ==
  [][ /\ \A k \in Keys(langs) \cap Keys(langs') :
           findMatchValue(langs', k) = findMatchValue(langs, k)
      /\ \A i, j \in 1..Len(sites') :
           sites'[i].key = sites'[j].key => sites'[i].text = sites'[j].text ]_vars

\* C3: deduplicateKey returns the base key B when the catalog has no key B
\* or binds B to the text; otherwise it returns B followed by the smallest
\* n >= 2 for which B<n> is no key of the catalog, and binding the result
\* leaves the entry at B as it was.
C3_Dedup ==
  (pc = "dedup" /\ dedup.done) =>
    LET obj == dedup.finalLangObj
        B == dedup.transKey
        T == dedup.text
    IN  IF B \notin Keys(obj) \/ findMatchValue(obj, B) = T
        THEN dedup.finalKey = B
        ELSE /\ \E n \in 2..(Len(obj) + 2) :
                  /\ dedup.finalKey = B \o <<ToString(n)>>
                  /\ dedup.finalKey \notin Keys(obj)
                  /\ \A m \in 2..(n - 1) : B \o <<ToString(m)>> \in Keys(obj)
             /\ findMatchValue(dedup.after, B) = findMatchValue(obj, B)

\* The loop of deduplicateKey has run past B2: the result is B3.
C3_Witness ==
  /\ pc = "dedup" /\ dedup.done
  /\ dedup.transKey = BaseKey
  /\ dedup.finalKey = BaseKey \o <<"3">>
  /\ findMatchValue(dedup.finalLangObj, Suffixed(BaseKey, 2)) = dedup.text

\* C4: when the run is over, every reference I18N.<K> that was written into
\* a file whose rewrite went through finds K in the catalog, bound to the
\* text of its span; for a template literal the text has each ${..} turned
\* into {val<i>}.
C4_RoundTrip ==
  pc = "done" =>
    \A i \in 1..Len(sites) :
      LET s == sites[i]
          isTemplate == CharAt(fs0[s.file], s.range.start) = BACKTICK
          want == IF isTemplate
                  THEN handleTemplateString(s.text, <<LOOKUP, ".">> \o s.key).replaceText
                  ELSE s.text
      IN  s.file \notin FailedFiles =>
            findMatchValue(langs, s.key) \in {want, Deescape(want)}

\* C5: a span is written over its own range and nothing else: the new code
\* of the file, before any import is added, is the old code up to the start
\* of the span, a reference expression, and the old code from the end of
\* the span on.
C5_Frame ==
  pc = "write" =>
    LET code == fs[allTargetStrs[cur].file]
        newCode == pending.newCode
        start == replaceableStrs[ri].target.range.start
        end == replaceableStrs[ri].target.range.end
        tail == Len(code) - end
    IN  /\ Len(newCode) >= start + tail
        /\ JsSlice(newCode, 0, start) = JsSlice(code, 0, start)
        /\ JsSliceFrom(newCode, Len(newCode) - tail) = JsSliceFrom(code, end)
        /\ \E n \in (start + 1)..(Len(newCode) - tail) : newCode[n] = LOOKUP

\* C6: when the run is over, every file that was rewritten holds exactly
\* one import of the lookup symbol.
C6_OneImport ==
  pc = "done" =>
    \A i \in 1..Len(sites) :
      sites[i].file \notin FailedFiles =>
        Cardinality({n \in 1..Len(fs[sites[i].file]) :
                       fs[sites[i].file][n] = IMPORT_I18N}) = 1

\* C10: a file whose rewrite was given up on a failed write is on disk what
\* it was before the run reached it.
C10_NoPartialRewrite ==
  \A r \in failed : r.at \in {"lang", "write"} => fs[r.file] = fs0[r.file]

C11_RemainingFilesProcessed ==
  pc = "done" =>
    /\ \A f \in skipped : fs[f] = fs0[f]
    /\ \A i \in 1..Len(allTargetStrs) :
         i < cur \/ (i = cur /\ allTargetStrs[i].file \in skipped)

\* C12: when the parser of one file rejects it during discovery, the other
\* files still get their work items: once discovery is over, every file
\* that parses and holds Chinese text has a work item.
C12_OtherFilesDiscovered ==
  pc # "start" =>
    \A i \in 1..Len(files) :
      (/\ IsCodeFile(files[i])
       /\ ~findChineseTextThrows(fs0[i], files[i])
       /\ findChineseText(fs0[i], files[i]) # << >>)
      => \E w \in 1..Len(allTargetStrs) : allTargetStrs[w].file = i

\* C13: when defaultTranslateKeyApi is not Pinyin, Google or Baidu, or is
\* not set, extractAll stops before discovery: no work item is built, the
\* translator is not called, and the source files and the catalog stay as
\* they were.
C13_UnknownApiNoSideEffect ==
  api \notin {"Pinyin", "Google", "Baidu"} =>
    /\ pc \in {"start", "rejected"}
    /\ allTargetStrs = << >>
    /\ sent = << >> /\ skipped = {} /\ failed = {} /\ faults = 0
    /\ fs = fs0 /\ langs = langs0

C13_Witness == pc = "rejected" /\ api = NoApi

\* C14: updateExistingLangFile raises the duplicate error exactly when
\* validateDuplicate is true and the key is bound to a value other than the
\* text being written.
C14_DuplicateOnlyOnDifferentValue ==
  (call.op = "updateExistingLangFile" /\ call.done) =>
    (call.threw <=> (/\ call.validateDuplicate
                     /\ \E i \in 1..Len(call.obj) :
                          \/ call.obj[i].k = call.key /\ call.obj[i].v # call.text
                          \/ IsBelow(call.obj[i].k, call.key)))

\* C15: of the spans that filterTargetStrs keeps from a list in an order of
\* descending start, no two overlap and none lies within another.
C15_SurvivorsDisjoint ==
  (call.op = "filterTargetStrs" /\ call.done) =>
    \A i, j \in 1..Len(call.out) :
      i < j => \/ call.out[i].range.end <= call.out[j].range.start
               \/ call.out[j].range.end <= call.out[i].range.start

C18_OnlyInteriorReplaced ==
  (call.op = "replaceAndUpdate" /\ call.done) =>
    LET code == call.code
        n == Len(code)
        start == call.arg.range.start
        end == call.arg.range.end
        opens == {o \in 0..(start - 2) : CharAt(code, o) = "{" /\ CharAt(code, o + 1) = "{"}
        open == CHOOSE o \in opens : \A x \in opens : x <= o
        closeFrom[i \in 0..n, depth \in 0..n] ==
          IF i >= n THEN -1
          ELSE IF CharAt(code, i) = "{" THEN closeFrom[i + 1, depth + 1]
          ELSE IF CharAt(code, i) = "}" THEN
            IF depth > 0 THEN closeFrom[i + 1, depth - 1]
            ELSE IF CharAt(code, i + 1) = "}" THEN i ELSE -1
          ELSE closeFrom[i + 1, depth]
        close == closeFrom[open + 2, 0]
    IN  (/\ EndsWith(call.filePath, ExtVue)
         /\ call.arg.isString
         /\ opens # {}
         /\ close # -1 /\ end <= close)
        => call.out.newCode = JsSlice(code, 0, open + 2) \o call.val \o JsSliceFrom(code, close)

\* C17: a span that the extractor made of a template literal with
\* interpolations is rewritten to the call I18N.template(ref, { val1: .. })
\* and its catalog text holds {val1}.. in place of the interpolations; a
\* template literal without interpolation is rewritten to ref and its text
\* is stored as it is.
C17_TemplateLiteralRewrite ==
  pc = "write" =>
    LET item == replaceableStrs[ri]
        code == fs[allTargetStrs[cur].file]
        start == item.target.range.start
        end == item.target.range.end
        text == item.target.text
        interpolations == VarInStr(text, 0)
        rewritten == handleTemplateString(text, pending.val)
    IN  (CharAt(code, start) = BACKTICK /\ CharAt(code, end - 1) = BACKTICK) =>
          IF interpolations = << >>
          THEN /\ pending.newCode = JsSlice(code, 0, start) \o pending.val \o JsSliceFrom(code, end)
               /\ pending.text = text
          ELSE /\ pending.newCode = JsSlice(code, 0, start) \o rewritten.replaceVal
                                    \o JsSliceFrom(code, end)
               /\ pending.text = rewritten.replaceText

\* C20: when the keys of a file have been synthesized, every span whose
\* text had a key in the catalog read for the synthesis is marked as
\* needing no catalog write, the later occurrences of a text as well as
\* the first.
C20_KnownTextNeedsNoWrite ==
  (pc = "lang" /\ ri = 1) =>
    \A i \in 1..Len(replaceableStrs) :
      findMatchKey(langs, replaceableStrs[i].target.text) # NULL
        => ~replaceableStrs[i].needWrite

\* C19: hasImportI18N is true exactly when some import declaration of the
\* file binds I18N: as its default import, as one of its named specifiers
\* or as its namespace import, whatever else the declaration imports.
C19_ImportFoundIffBound ==
  (call.op = "hasImportI18N" /\ call.done) =>
    (call.out <=>
       \E i \in 1..Len(call.code) :
         /\ call.code[i] \in ImportStatements
         /\ LET clause == ImportClauseOf(call.code[i])
            IN  clause.name = LOOKUP \/ LOOKUP \in clause.namedBindings.names)

\* C21: a key that the synthesis of a file makes anew holds no hyphen, with
\* an explicit prefix as well as with the prefix suggested by the path, and
\* begins with that prefix, its hyphens turned into underscores.
C21_NewKeyHasNoHyphen ==
  (pc = "lang" /\ ri = 1) =>
    \A i \in 1..Len(replaceableStrs) :
      LET item == replaceableStrs[i]
          lead == IF langsPrefix # NULL THEN langsPrefix
                  ELSE JoinDot(getSuggestion(files[allTargetStrs[cur].file]))
          fresh == /\ item.needWrite
                   /\ \A j \in 1..(i - 1) : replaceableStrs[j].target.text # item.target.text
      IN  fresh => /\ \A c \in 1..Len(item.key) : item.key[c] # "-"
                   /\ StartsWith(item.key, ReplaceAll(lead, "-", "_") \o <<".">>)

C23_NamespaceRegisteredOnce ==
  (call.op = "addImportToMainLangFile" /\ call.done) =>
    LET content == call.out
        name == call.newFilename
        imports == {i \in 1..(Len(content) - 4) : SubSeq(content, i, i + 4) = ImportOf(name)}
        exports == {i \in 1..Len(content) : content[i] \in {EXPORT_ASSIGN, EXPORT_PLAIN}}
        members == {i \in 1..Len(content) :
                      content[i] = name /\ \E e \in exports : e < i}
    IN  Cardinality(imports) = 1 /\ Cardinality(exports) = 1 /\ Cardinality(members) = 1

\* C24: every span returned by findChineseText, for a file of any dialect,
\* lies within the source (0 <= range.start < range.end <= length of the
\* source) and the slice of the source at the span holds a Chinese character.
C24_SpansLieOnChineseText ==
  (call.op = "findChineseText" /\ call.done) =>
    \A k \in 1..Len(call.out) :
      LET range == call.out[k].range IN
      /\ 0 <= range.start
      /\ range.start < range.end
      /\ range.end <= Len(call.code)
      /\ hasChinese(JsSlice(call.code, range.start, range.end))

C26_KeptRecordsAreNotNested ==
  (call.op = "findTextInVue2Template" /\ call.done) =>
    \A k \in 1..Len(call.out) :
      \A other \in {call.expressTemp[i] : i \in 1..Len(call.expressTemp)}
                     \cup {call.hits[i] : i \in 1..Len(call.hits)} :
        ~(/\ other.range.start <= call.out[k].range.start
          /\ call.out[k].range.end <= other.range.end
          /\ other.range # call.out[k].range)

\* C27: the fragment of a literal that goes to the translator is the
\* literal's Chinese characters and letters, cut to the first five, and the
\* default fragment when the literal has none of them; it is never empty.
C27_FragmentOrSentinel ==
  (call.op = "getTransOriginText" /\ call.done) =>
    LET kept == SelectSeq(call.text, LAMBDA ch : ch \in Letters \cup HanBasic)
    IN  /\ call.out = IF kept = << >> THEN SENTINEL ELSE SubSeq(kept, 1, Min(Len(kept), 5))
        /\ call.out # << >>

\* C28: the step that leaves a file out because the translator answered with
\* nothing changes no source file and no catalog: the file keeps its code,
\* no import is added to it, and no catalog entry is made or changed.
C28_SkippedFileChangesNothing ==
  [][(skipped' \ skipped # {}) => (fs' = fs /\ langs' = langs)]_vars

\* A file was left out in a run that did rewrite another file.
C28_Witness ==
  /\ skipped # {}
  /\ sites # << >>
  /\ \A f \in skipped : fs[f] = fs0[f]

\* C29: a catalog write of a key and a text leaves every other entry of the
\* catalog in place with its text, also an entry whose key extends the
\* written key or is a prefix of it.
C29_OtherEntriesKept ==
  (call.op = "updateExistingLangFile" /\ call.done /\ ~call.threw) =>
    \A i \in 1..Len(call.obj) :
      call.obj[i].k # call.key =>
        \E j \in 1..Len(call.out) :
          call.out[j].k = call.obj[i].k /\ call.out[j].v = call.obj[i].v

\* C30: on the same file path, prefix, translator answers, spans and
\* catalog, the getReplaceableStrs built from findExistingKey,
\* generateNewKey, deduplicateKey and assembleReplaceItem and the original
\* getReplaceableStrs return the same items (target, key, needWrite) and
\* leave the same in-memory catalog.
C30_RefactoredEqualsInline ==
  (call.op = "getReplaceableStrs" /\ call.done) =>
    /\ call.out.refactored.items = call.out.inline.items
    /\ call.out.refactored.obj = call.out.inline.obj

\* Both versions have run on a call with a prefix that holds a hyphen, one
\* text found in the catalog and one text that got a new key with a suffix.
C30_Witness ==
  /\ call.op = "getReplaceableStrs"
  /\ call.done
  /\ call.langsPrefix # NULL
  /\ \E i, j \in 1..Len(call.out.inline.items) :
       /\ ~call.out.inline.items[i].needWrite
       /\ call.out.inline.items[j].needWrite
       /\ call.out.inline.items[j].key = Suffixed(<<"a", "-", "b", ".", "t", "i">>, 2)

====
